---------------------------- MODULE Spec2Model ----------------------------
(***************************************************************************)
(* State-machine model of the LLM trading system (manwallet/Crypto-llm):   *)
(*   src/main.py                        LLMTrader (jobs, execute_decision)  *)
(*   src/modules/llm_agent_manager.py   LLMAgentManager (pipeline stages)   *)
(*   src/modules/trade_history.py       TradeHistory (the ledger)           *)
(*   src/modules/prompt_manager.py      PromptManager (market context)      *)
(*   src/modules/market_classifier.py   MarketClassifier                    *)
(*   src/modules/position_manager.py    PositionManager                     *)
(*   src/modules/emergency_manager.py   EmergencyManager                    *)
(*                                                                         *)
(* Representation.                                                         *)
(*  - Python None is the string "None" for a position, the number 0 for a  *)
(*    trade id (real ids start at 1) and NoneState for a market state.     *)
(*  - A text of a reasoning service is a sequence of tokens; substring and *)
(*    split operations of the code are computed on the token sequence.     *)
(*  - A parsed JSON object is a function from its keys to strings.  The    *)
(*    key "market_state" that make_final_decision adds to the object is    *)
(*    the field market_state next to the field obj.                        *)
(*  - Time is counted in days, the unit of get_recent_trades.              *)
(***************************************************************************)
EXTENDS Integers, Sequences, FiniteSets, TLC

(***************************************************************************)
(* Bounds of the model.                                                    *)
(***************************************************************************)
MaxCycles == 2      \* pipeline cycles started in one run
MaxTicks == 2       \* clock advances in one run
MaxTrades == 2      \* records added to the ledger on its own
MaxRespLen == 3     \* tokens in a FinalDecision response
MaxBars == 120       \* bars of a series handed to the classifier on its own
MaxRiskLen == 2     \* tokens in a risk assessment

(***************************************************************************)
(* Program constants.                                                      *)
(***************************************************************************)
KlineLimit == 500             \* bars requested by get_market_data
TrendLookbackLong == 50       \* MarketClassifier.trend_lookback_long
Lookback1h == 60              \* iloc[-60] in prepare_market_context
Lookback24h == 1440           \* iloc[-1440] in prepare_market_context
DefaultDays == 30             \* calculate_performance_metrics(days=30)
HistoryWindow == 4            \* conversation_history[-4:]

(***************************************************************************)
(* Generic helpers.                                                        *)
(***************************************************************************)
Range(s) == {s[i] : i \in 1..Len(s)}

Get(d, k, default) == IF k \in DOMAIN d THEN d[k] ELSE default

SeqsUpTo(S, n) == UNION {[1..k -> S] : k \in 0..n}

Last(s, n) == IF Len(s) <= n THEN s ELSE SubSeq(s, Len(s) - n + 1, Len(s))

\* Index of the first element of s at or after position from that lies in
\* S; Len(s) + 1 when there is none.
FirstIn(s, S, from) ==
  LET idx == {i \in from..Len(s) : s[i] \in S}
  IN  IF idx = {} THEN Len(s) + 1
      ELSE CHOOSE i \in idx : \A j \in idx : i <= j

\* pattern in text, for a text and a pattern that are token sequences.
Contains(text, pattern) ==
  \E i \in 1..(Len(text) - Len(pattern) + 1) :
     SubSeq(text, i, i + Len(pattern) - 1) = pattern

(***************************************************************************)
(* Market state (MarketClassifier.classify_market).                        *)
(***************************************************************************)
NoneState == [trend |-> "None", volatility |-> "None", momentum |-> "None"]

UnknownState ==
  [trend |-> "unknown", volatility |-> "unknown", momentum |-> "unknown"]

\* The series that is None, among the bar counts.
NoSeries == -1

\* classify_market without the guard of line 26: _identify_trend indexes
\* iloc[-50] of a shorter series (IndexError), or subscripts None.
classify_market_NoGuard(nbars) == [raised |-> TRUE, state |-> NoneState]

\* classify_market: the unknown classification for None and below 50 bars;
\* for 50 bars or more _identify_critical_levels reads the name
\* market_data, which is neither a parameter nor a global of the module,
\* and raises NameError.
classify_market(nbars) ==
  IF nbars = NoSeries \/ nbars < TrendLookbackLong
  THEN [raised |-> FALSE, state |-> UnknownState]
  ELSE [raised |-> TRUE, state |-> NoneState]

\* prepare_chart_context raises IndexError (index[0]) on an empty frame.
prepare_chart_context_raises(nbars) == nbars = 0

\* prepare_market_context with the one-hour lookback only.
prepare_market_context_raises_HourOnly(nbars) == nbars < Lookback1h

\* prepare_market_context indexes close.iloc[-60] and close.iloc[-1440]:
\* IndexError for a frame shorter than 1440 bars.
prepare_market_context_raises(nbars) ==
  nbars < Lookback1h \/ nbars < Lookback24h

(***************************************************************************)
(* Strings of the program.  A string is the sequence of its characters     *)
(* (tokens); the Chinese action names are spelled by the pinyin of their   *)
(* characters: kai duo = open long, kai kong = open short, ping cang =     *)
(* close the position, guan wang = hold (wait and see), chi cang guan wang *)
(* = keep the position and wait, the fifth choice the FinalDecision prompt *)
(* offers on its line 495.                                                 *)
(***************************************************************************)
OpenLong == <<"kai", "duo">>

OpenShort == <<"kai", "kong">>

ClosePosition == <<"ping", "cang">>

Hold == <<"guan", "wang">>

KeepAndHold == <<"chi", "cang", "guan", "wang">>

(***************************************************************************)
(* Rational numbers as reduced pairs <<numerator, denominator>>.           *)
(***************************************************************************)
Abs(x) == IF x < 0 THEN -x ELSE x

RECURSIVE Gcd(_, _)
Gcd(a, b) == IF b = 0 THEN a ELSE Gcd(b, a % b)

\* n / d for d > 0, reduced; the code guards every division by d > 0.
Ratio(n, d) ==
  LET g == Gcd(Abs(n), d) IN <<n \div g, d \div g>>

Zero == <<0, 1>>

(***************************************************************************)
(* TradeHistory: the ledger and its persisted file.                        *)
(* A record is [timestamp, trade_id, data, result, updated_at]; result and *)
(* updated_at are <<>> while the key is absent and <<value>> once set.     *)
(***************************************************************************)
\* NewTradeId with the increment lost once the ledger is not empty.
NewTradeId_OffByOne(ledger) == IF ledger = <<>> THEN 1 ELSE Len(ledger)

\* id that add_trade gives to a new record: len(self.trades) + 1.
NewTradeId(ledger) == Len(ledger) + 1

add_trade(ledger, trade_data, clock) ==
  Append(ledger, [timestamp |-> clock,
                  trade_id |-> NewTradeId(ledger),
                  data |-> trade_data,
                  result |-> <<>>,
                  updated_at |-> <<>>])

\* json.dump of the record list: one JSON object per record, holding the
\* keys the record has (result and updated_at only once they are set).
json_dump(ledger) ==
  [i \in 1..Len(ledger) |->
     [timestamp |-> ledger[i].timestamp, trade_id |-> ledger[i].trade_id,
      data |-> ledger[i].data]
     @@ (IF ledger[i].result = <<>> THEN <<>>
         ELSE [result |-> ledger[i].result[1]])
     @@ (IF ledger[i].updated_at = <<>> THEN <<>>
         ELSE [updated_at |-> ledger[i].updated_at[1]])]

\* json.load of such a document.
json_load(doc) ==
  [i \in 1..Len(doc) |->
     [timestamp |-> doc[i].timestamp, trade_id |-> doc[i].trade_id,
      data |-> doc[i].data,
      result |-> IF "result" \in DOMAIN doc[i]
                 THEN <<doc[i].result>> ELSE <<>>,
      updated_at |-> IF "updated_at" \in DOMAIN doc[i]
                     THEN <<doc[i].updated_at>> ELSE <<>>]]

\* save_history when the write goes through: the whole list replaces the
\* old file.
save_history(ledger) == [state |-> "written", trades |-> json_dump(ledger)]

\* A file that json.load cannot read: what is left when the write raises
\* after open has emptied the file.
CorruptFile == [state |-> "corrupt", trades |-> <<>>]

\* The files save_history can leave behind (lines 26-30): the new document,
\* or an unreadable file when the write raises; the exception is printed
\* and the caller goes on.
SaveOutcomes(ledger) == {save_history(ledger), CorruptFile}

\* _load_history: [] when the file is absent or unreadable.
load_history(f) ==
  IF f.state = "written" THEN json_load(f.trades) ELSE <<>>

\* TradeHistory.__init__ without the except of lines 20-22: json.load
\* raises on an unreadable file.
TradeHistoryInit_NoExcept(f) ==
  [raised |-> f.state = "corrupt", trades |-> load_history(f)]

\* TradeHistory.__init__ (lines 8-11): every exception of the load is
\* caught inside _load_history.
TradeHistoryInit(f) == [raised |-> FALSE, trades |-> load_history(f)]

\* Index of the first record with that id, 0 when there is none.
FindTrade(ledger, trade_id) ==
  LET idx == {i \in 1..Len(ledger) : ledger[i].trade_id = trade_id}
  IN  IF idx = {} THEN 0 ELSE CHOOSE i \in idx : \A j \in idx : i <= j

\* update_trade_result that moves the updated record to the end of the
\* list.
update_trade_result_Reappend(ledger, trade_id, result_data, clock) ==
  LET i == FindTrade(ledger, trade_id)
  IN  IF i = 0 THEN ledger
      ELSE Append([j \in 1..(Len(ledger) - 1) |->
                     IF j < i THEN ledger[j] ELSE ledger[j + 1]],
                  [ledger[i] EXCEPT !.result = <<result_data>>,
                                    !.updated_at = <<clock>>])

update_trade_result(ledger, trade_id, result_data, clock) ==
  LET i == FindTrade(ledger, trade_id)
  IN  IF i = 0 THEN ledger
      ELSE [ledger EXCEPT ![i].result = <<result_data>>,
                          ![i].updated_at = <<clock>>]

RECURSIVE SelectRecent(_, _)
SelectRecent(ledger, cutoff) ==
  IF ledger = <<>> THEN <<>>
  ELSE IF Head(ledger).timestamp >= cutoff
       THEN <<Head(ledger)>> \o SelectRecent(Tail(ledger), cutoff)
       ELSE SelectRecent(Tail(ledger), cutoff)

\* get_recent_trades: the records whose timestamp is not before now - days.
get_recent_trades(ledger, clock, days) == SelectRecent(ledger, clock - days)

RECURSIVE SumSeq(_)
SumSeq(s) == IF s = <<>> THEN 0 ELSE Head(s) + SumSeq(Tail(s))

HasResult(t) == t.result /= <<>>

\* result.get("profit", 0)
Profit(t) == t.result[1]

Direction(t) == Get(t.data.obj, "action", <<>>)

\* The test on line 110: the character duo occurs in the action (or the
\* action is the open-long string).
IsLong(action) == "duo" \in Range(action) \/ action = OpenLong

\* The test on line 114, for the character kong and the open-short string.
IsShort(action) == "kong" \in Range(action) \/ action = OpenShort

\* total_trades as line 83 computes it: the length of the recent window.
TotalTrades(recent) == Len(recent)

\* profit_factor with the whole profit reported when nothing was lost.
ProfitFactor_ProfitWhenNoLoss(total_profit, total_loss) ==
  IF total_loss > 0 THEN Ratio(total_profit, total_loss)
  ELSE <<total_profit, 1>>

\* Line 124.
ProfitFactor(total_profit, total_loss) ==
  IF total_loss > 0 THEN Ratio(total_profit, total_loss) ELSE Zero

calculate_performance_metrics(ledger, clock, days) ==
  LET recent == get_recent_trades(ledger, clock, days)
      total_trades == TotalTrades(recent)
      SumOver(s, f(_)) == SumSeq([i \in 1..Len(s) |-> f(s[i])])
      Won(t) == IF HasResult(t) /\ Profit(t) > 0 THEN 1 ELSE 0
      Gain(t) == IF HasResult(t) /\ Profit(t) > 0 THEN Profit(t) ELSE 0
      Loss(t) == IF HasResult(t) /\ Profit(t) <= 0 THEN Abs(Profit(t)) ELSE 0
      Cnt(t) == IF HasResult(t) THEN 1 ELSE 0
      Sum(t) == IF HasResult(t) THEN Profit(t) ELSE 0
      LongT(t) == IF HasResult(t) /\ IsLong(Direction(t)) THEN 1 ELSE 0
      LongW(t) == IF LongT(t) = 1 /\ Profit(t) > 0 THEN 1 ELSE 0
      ShortT(t) ==
        IF HasResult(t) /\ ~IsLong(Direction(t)) /\ IsShort(Direction(t))
        THEN 1 ELSE 0
      ShortW(t) == IF ShortT(t) = 1 /\ Profit(t) > 0 THEN 1 ELSE 0
      winning_trades == SumOver(recent, Won)
      total_profit == SumOver(recent, Gain)
      total_loss == SumOver(recent, Loss)
      nprofits == SumOver(recent, Cnt)
      profits == {Profit(recent[i]) :
                    i \in {j \in 1..Len(recent) : HasResult(recent[j])}}
      long_total == SumOver(recent, LongT)
      short_total == SumOver(recent, ShortT)
      Max(S) == CHOOSE x \in S : \A y \in S : y <= x
      Min(S) == CHOOSE x \in S : \A y \in S : x <= y
  IN  IF recent = <<>>
      THEN [total_trades |-> 0, win_rate |-> Zero, avg_profit |-> Zero,
            max_profit |-> 0, max_loss |-> 0, profit_factor |-> Zero,
            long |-> Zero, short |-> Zero]
      ELSE [total_trades |-> total_trades,
            win_rate |-> IF total_trades > 0
                         THEN Ratio(winning_trades, total_trades) ELSE Zero,
            avg_profit |-> IF nprofits > 0
                           THEN Ratio(SumOver(recent, Sum), nprofits)
                           ELSE Zero,
            max_profit |-> IF profits /= {} THEN Max(profits) ELSE 0,
            max_loss |-> IF profits /= {} THEN Min(profits) ELSE 0,
            profit_factor |-> ProfitFactor(total_profit, total_loss),
            long |-> IF long_total > 0
                     THEN Ratio(SumOver(recent, LongW), long_total) ELSE Zero,
            short |-> IF short_total > 0
                      THEN Ratio(SumOver(recent, ShortW), short_total)
                      ELSE Zero]

(***************************************************************************)
(* Decisions and the FinalDecision response.                               *)
(***************************************************************************)
DecisionKeys ==
  {"action", "price", "quantity", "stop_loss", "take_profit", "confidence",
   "reason"}

EmptyObj == [k \in {} |-> <<>>]

\* A decision object with the seven keys of the prompt (lines 504-512).
FullDecision(action) ==
  [k \in DecisionKeys |->
     CASE k = "action" -> action
       [] k = "price" -> <<"market">>
       [] k = "quantity" -> <<"10", "%">>
       [] k = "stop_loss" -> <<"1">>
       [] k = "take_profit" -> <<"1">>
       [] k = "confidence" -> <<"7">>
       [] OTHER -> <<"r">>]

\* The JSON values a response may carry in its payload: decision objects
\* with all keys, an object with the key action only, a value that is not
\* an object, and text that is not JSON.
Payloads ==
  {[kind |-> "object", obj |-> FullDecision(a)] :
      a \in {OpenLong, OpenShort, ClosePosition, Hold, KeepAndHold}}
  \cup {[kind |-> "object", obj |-> [k \in {"action"} |-> OpenLong]],
        [kind |-> "array", obj |-> EmptyObj],
        [kind |-> "invalid", obj |-> EmptyObj]}

\* Tokens of a response: the fence of three backquotes followed by the
\* word json, the bare fence of three backquotes, the payload J and other
\* prose x.
FenceJson == "fence_json"

Fence == "fence"

RespTokens == {FenceJson, Fence, "J", "x"}

Responses == SeqsUpTo(RespTokens, MaxRespLen)

\* Lines 526-532: the text handed to json.loads.  split(FenceJson)[1] ends
\* at the next FenceJson, split(Fence)[0] at the first Fence after it; a
\* FenceJson token also holds the three backquotes of Fence.
ExtractJson(text) ==
  IF FenceJson \in Range(text)
  THEN LET i == FirstIn(text, {FenceJson}, 1)
           j == FirstIn(text, {FenceJson, Fence}, i + 1)
       IN  SubSeq(text, i + 1, j - 1)
  ELSE IF Fence \in Range(text)
       THEN LET i == FirstIn(text, {Fence}, 1)
                j == FirstIn(text, {Fence}, i + 1)
            IN  SubSeq(text, i + 1, j - 1)
       ELSE text

\* json.loads(json_text) returns a value: the text is one JSON value.
JsonLoads(json_text, payload) ==
  json_text = <<"J">> /\ payload.kind /= "invalid"

\* AssignRaises for a decision stored without assigning into the value.
AssignRaises_Never(payload) == FALSE

\* decision["market_state"] = ... raises TypeError unless the value that
\* json.loads returned is a dict.
AssignRaises(payload) == payload.kind /= "object"

\* Outcome of the try block of make_final_decision (lines 523-552).
ParseOutcome(text, payload) ==
  IF ~JsonLoads(ExtractJson(text), payload) THEN "json_error"
  ELSE IF AssignRaises(payload) THEN "type_error"
  ELSE "ok"

\* SafeDefaultDecision with an action that trades.
SafeDefaultDecision_OpensLong ==
  [action |-> OpenLong, price |-> <<"market">>, quantity |-> <<"0">>,
   stop_loss |-> <<"0">>, take_profit |-> <<"0">>, confidence |-> <<"0">>,
   reason |-> <<"parse_error">>]

\* The decision of lines 558-568.
SafeDefaultDecision ==
  [action |-> Hold, price |-> <<"market">>, quantity |-> <<"0">>,
   stop_loss |-> <<"0">>, take_profit |-> <<"0">>, confidence |-> <<"0">>,
   reason |-> <<"parse_error">>]

\* No decision_result: the job never reached the end of make_final_decision.
NoResult ==
  [made |-> FALSE, obj |-> EmptyObj, market_state |-> NoneState,
   trade_id |-> 0]

(***************************************************************************)
(* Reconciliation (debate_strategy).                                       *)
(* Tokens of a risk assessment: bu = not, jianyi_zhixing = "recommend     *)
(* executing", tiaozheng_hou_zhixing = "execute after adjusting".  The     *)
(* phrase "not recommended to execute" of line 406 is bu followed by       *)
(* jianyi_zhixing.                                                         *)
(***************************************************************************)
RiskTokens == {"bu", "jianyi_zhixing", "tiaozheng_hou_zhixing"}

RiskTexts == SeqsUpTo(RiskTokens, MaxRiskLen)

RejectPhrase == <<"bu", "jianyi_zhixing">>

AdjustPhrase == <<"tiaozheng_hou_zhixing">>

\* NeedsDebate that looks for "recommend executing" without the "not".
NeedsDebate_Loose(risk_assessment) ==
  Contains(risk_assessment, <<"jianyi_zhixing">>)
  \/ Contains(risk_assessment, AdjustPhrase)

\* Line 406.
NeedsDebate(risk_assessment) ==
  Contains(risk_assessment, RejectPhrase)
  \/ Contains(risk_assessment, AdjustPhrase)

(***************************************************************************)
(* execute_decision: the exchange calls it makes, in order.                *)
(***************************************************************************)
\* float(s) succeeds and is > 0; the numeric strings are "0" and "1".
IsPositiveNumber(s) == s = <<"1">>

\* price == "market", or the price names the market price (shijia) or the
\* present price (xianjia).
IsMarketPrice(price) ==
  price = <<"market">> \/ "shijia" \in Range(price)
  \/ "xianjia" \in Range(price)

\* Lines 213-230: the reads made to turn the quantity into a number.  Both
\* _adjust_quantity_precision and _get_min_quantity read the exchange info.
QuantityCalls(quantity) ==
  IF "%" \in Range(quantity)
  THEN <<"futures_account", "futures_symbol_ticker", "futures_exchange_info">>
  ELSE <<"futures_exchange_info">>

\* OpenCalls that places the entry order once more when it was rejected.
OpenCalls_RetryEntry(entry, exit, price, stop_loss, take_profit, entry_ok) ==
  <<"futures_symbol_ticker",
    IF IsMarketPrice(price) THEN "order_market_" \o entry
    ELSE "order_limit_" \o entry>>
  \o (IF ~entry_ok
      THEN <<IF IsMarketPrice(price) THEN "order_market_" \o entry
             ELSE "order_limit_" \o entry>>
      ELSE (IF IsPositiveNumber(stop_loss)
            THEN <<"order_stop_" \o exit>> ELSE <<>>)
           \o (IF IsPositiveNumber(take_profit)
               THEN <<"order_take_profit_" \o exit>> ELSE <<>>))

\* _open_long_position / _open_short_position with entry side buy / sell:
\* the ticker read, the entry order and, when the entry order did not
\* raise, the stop-loss and the take-profit order on the exit side.
OpenCalls(entry, exit, price, stop_loss, take_profit, entry_ok) ==
  <<"futures_symbol_ticker",
    IF IsMarketPrice(price) THEN "order_market_" \o entry
    ELSE "order_limit_" \o entry>>
  \o (IF ~entry_ok THEN <<>>
      ELSE (IF IsPositiveNumber(stop_loss)
            THEN <<"order_stop_" \o exit>> ELSE <<>>)
           \o (IF IsPositiveNumber(take_profit)
               THEN <<"order_take_profit_" \o exit>> ELSE <<>>))

\* PositionManager.close_all_positions for the position it reads.
CloseCalls(position) ==
  <<"futures_position_information">>
  \o (IF position \in {"None", "flat"} THEN <<>>
      ELSE <<"futures_cancel_all_open_orders",
             IF position = "long" THEN "order_market_sell"
             ELSE "order_market_buy">>)

\* execute_decision (lines 187-241).
ExecuteCalls(decision, entry_ok, position) ==
  LET action == Get(decision, "action", Hold)
      price == Get(decision, "price", <<"market">>)
      quantity == Get(decision, "quantity", <<"0">>)
      stop_loss == Get(decision, "stop_loss", <<"0">>)
      take_profit == Get(decision, "take_profit", <<"0">>)
  IN  IF action = Hold THEN <<>>
      ELSE QuantityCalls(quantity)
           \o (IF action = OpenLong
               THEN OpenCalls("buy", "sell", price, stop_loss, take_profit,
                              entry_ok)
               ELSE IF action = OpenShort
               THEN OpenCalls("sell", "buy", price, stop_loss, take_profit,
                              entry_ok)
               ELSE IF action = ClosePosition THEN CloseCalls(position)
               ELSE <<>>)

\* The exchange calls that place or cancel orders or close the position.
MutatingCalls ==
  {"order_market_buy", "order_market_sell", "order_limit_buy",
   "order_limit_sell", "order_stop_buy", "order_stop_sell",
   "order_take_profit_buy", "order_take_profit_sell",
   "futures_cancel_all_open_orders"}

(***************************************************************************)
(* State.                                                                  *)
(***************************************************************************)
VARIABLES
  now,                   \* the clock, in days
  ticks,                 \* clock advances so far
  trades,                \* TradeHistory.trades
  file,                  \* logs/trade_history.json
  conversation_history,  \* LLMAgentManager.conversation_history
  market_state,          \* LLMAgentManager.market_state
  current_trade_id,      \* LLMAgentManager.current_trade_id
  pc,                    \* position of the running pipeline cycle
  cycles,                \* pipeline cycles started so far
  cyc,                   \* locals of the running pipeline cycle
  ledger_call,           \* the last call made on TradeHistory and its return
  em,                    \* locals of the running emergency_check_job
  mgr,                   \* last EmergencyManager.check_emergency call
  sched,                 \* the scheduler thread of run_schedule
  fn_call                \* the last call of a function on its own

vars ==
  <<now, ticks, trades, file, conversation_history, market_state,
    current_trade_id, pc, cycles, cyc, ledger_call, em, mgr,
                 sched, fn_call>>

\* Bar counts the exchange returns for limit=500: an empty list, fewer bars
\* than the classifier needs, and the full 500.
JobBarCounts == {0, TrendLookbackLong - 1, KlineLimit}

\* get_position_info: None when the call fails, else the position.
Positions == {"None", "flat", "long"}

\* Profits a caller reports to update_trade_result.
Profits == {-1, 0, 1}

\* Days by which the clock advances between two cycles.
ClockSteps == {DefaultDays, DefaultDays + 1}

\* PipelineOrder with the risk evaluation ahead of the strategy.
PipelineOrder_RiskFirst ==
  <<"analyze", "risk", "strategy", "validate", "debate", "final", "execute">>

\* The calls of one cycle in the order the code makes them: main.py lines
\* 114 (analyze_market), 118 (suggest_strategy, whose line 259 validates),
\* 122 (evaluate_risk), 126 (make_final_decision, whose line 459 debates
\* before its own call on line 517) and 134 (execute_decision).
PipelineOrder ==
  <<"analyze", "strategy", "validate", "risk", "debate", "final", "execute">>

After(stage) ==
  LET i == CHOOSE k \in 1..Len(PipelineOrder) : PipelineOrder[k] = stage
  IN  IF i < Len(PipelineOrder) THEN PipelineOrder[i + 1] ELSE "done"

IdleCyc ==
  [driver |-> "none", nbars |-> 0, position |-> "None",
   original_strategy |-> "none", strategy |-> "none",
   risk_assessment |-> <<>>, debated_strategy |-> "none",
   was_debated |-> FALSE, parse |-> "none",
   response |-> [json_text |-> <<>>, kind |-> "none"], result |-> NoResult,
   failed |-> "none", calls |-> <<>>, exchange |-> <<>>,
   ledger_before |-> 0]

\* TradeHistory() has been constructed and no method called yet; returned
\* tells that the constructor did not raise.
InitCall == [op |-> "init", trade_id |-> 0, returned |-> TRUE]

\* An answer that reports an emergency and advises to close.
NoEmergency_CloseToBeSafe ==
  [k \in {"is_emergency", "action"} |->
     IF k = "is_emergency" THEN <<"true">> ELSE <<"ping", "cang">>]

\* The answer check_emergency returns when it makes no call or cannot read
\* the response (llm_agent_manager.py lines 583 and 661).
NoEmergency ==
  [k \in {"is_emergency", "action"} |->
     IF k = "is_emergency" THEN <<"false">> ELSE <<"None">>]

\* No emergency_check_job is running; runs counts the runs started so far.
IdleEm ==
  [phase |-> "idle", runs |-> 0, driver |-> "none", nbars |-> 0,
   position |-> "unread", calls |-> <<>>, parse |-> "none",
   result |-> NoEmergency, fired |-> FALSE, logged |-> FALSE,
   close_invoked |-> FALSE, exchange |-> <<>>, failed |-> "none"]

\* Minutes between two runs of a job, counted in units of five minutes.
StrategyInterval == 3     \* STRATEGY_UPDATE_INTERVAL, 15 minutes
EmergencyInterval == 1    \* EMERGENCY_CHECK_INTERVAL, 5 minutes

Interval(job) ==
  IF job = "strategy" THEN StrategyInterval ELSE EmergencyInterval

\* start() has registered the two jobs at clock 0 and the scheduler thread
\* sleeps: each job is first due one interval later, no run is in flight.
IdleSched ==
  [clock |-> 0,
   next_run |-> [j \in {"strategy", "emergency"} |-> Interval(j)],
   queue |-> <<>>, runs |-> <<>>, alive |-> TRUE,
   last_end |-> [j \in {"strategy", "emergency"} |-> 0],
   dropped |-> [j \in {"strategy", "emergency"} |-> 0],
   last_failed |-> [j \in {"strategy", "emergency"} |-> "none"]]

\* No function has been called on its own.
NoCall == [fn |-> "none", args |-> <<>>, result |-> <<>>]

\* EmergencyManager.check_emergency has not been called.
NoCheck ==
  [made |-> FALSE, nbars |-> 0, position |-> "None", pnl_percentage |-> 0,
   volatility_emergency |-> FALSE, volume_emergency |-> FALSE,
   price_emergency |-> FALSE, risk_score |-> 0, is_emergency |-> FALSE]

Init ==
  /\ now = 0
  /\ ticks = 0
  /\ file = [state |-> "absent", trades |-> <<>>]
  /\ trades = load_history(file)
  /\ conversation_history = <<>>
  /\ market_state = NoneState
  /\ current_trade_id = 0
  /\ pc = "idle"
  /\ cycles = 0
  /\ cyc = IdleCyc
  /\ ledger_call = InitCall
  /\ em = IdleEm
  /\ mgr = NoCheck
  /\ sched = IdleSched
  /\ fn_call = NoCall

Entry(role, content) == [role |-> role, content |-> content, cycle |-> cycles]

Call(role, texts) == [role |-> role, texts |-> texts]

\* An exception leaves the stage method and is caught on line 146: the
\* cycle ends without a decision_result.
Abort(stage) ==
  /\ pc' = "done"
  /\ cyc' = [cyc EXCEPT !.failed = stage]

(***************************************************************************)
(* The pipeline cycle.                                                     *)
(***************************************************************************)
\* strategy_update_job, lines 100-109: the market data and the position
\* are fetched; without market data the job returns.
StartJob ==
  /\ pc = "idle"
  /\ cycles < MaxCycles
  /\ cycles' = cycles + 1
  /\ \E fetched \in BOOLEAN, n \in JobBarCounts, pos \in Positions :
       IF fetched
       THEN /\ pc' = "analyze"
            /\ cyc' = [IdleCyc EXCEPT !.driver = "job", !.nbars = n,
                                      !.position = pos,
                                      !.ledger_before = Len(trades)]
       ELSE /\ pc' = "done"
            /\ cyc' = [IdleCyc EXCEPT !.driver = "job",
                                      !.failed = "market_data",
                                      !.ledger_before = Len(trades)]
  /\ UNCHANGED <<ledger_call, em, mgr,
                 sched, fn_call>>
  /\ UNCHANGED <<now, ticks, trades, file, conversation_history,
                 market_state, current_trade_id>>

\* analyze_market (lines 86-160): classification, chart and market
\* context, then the analyst call.
AnalyzeMarket ==
  /\ pc = "analyze"
  /\ LET c == classify_market(cyc.nbars)
     IN  IF c.raised
         THEN /\ Abort("classify_market")
              /\ UNCHANGED <<market_state, conversation_history>>
         ELSE /\ market_state' = c.state
              /\ IF prepare_chart_context_raises(cyc.nbars)
                 THEN /\ Abort("chart_context")
                      /\ UNCHANGED conversation_history
                 ELSE IF prepare_market_context_raises(cyc.nbars)
                 THEN /\ Abort("market_context")
                      /\ UNCHANGED conversation_history
                 ELSE \E ok \in BOOLEAN :
                        IF ok
                        THEN /\ conversation_history' =
                                  Append(conversation_history,
                                         Entry("analyst", "analysis"))
                             /\ pc' = After("analyze")
                             /\ cyc' = [cyc EXCEPT !.calls =
                                          Append(@, Call("analyst", {}))]
                        ELSE /\ pc' = "done"
                             /\ cyc' = [cyc EXCEPT
                                          !.failed = "analysis",
                                          !.calls =
                                            Append(@, Call("analyst", {}))]
                             /\ UNCHANGED conversation_history
  /\ UNCHANGED <<ledger_call, em, mgr,
                 sched, fn_call>>
  /\ UNCHANGED <<now, ticks, trades, file, current_trade_id, cycles>>

\* The stage calls of lines 118-134 made by a caller that holds an
\* analysis_result of the shape of lines 155-160 and the position_info of
\* line 109, None when the fetch failed; both reach the prompts only.
PipelineEntry ==
  /\ pc = "idle"
  /\ cycles < MaxCycles
  /\ cycles' = cycles + 1
  /\ \E pos \in Positions :
       cyc' = [IdleCyc EXCEPT !.driver = "stages", !.position = pos,
                             !.ledger_before = Len(trades)]
  /\ pc' = After("analyze")
  /\ UNCHANGED <<ledger_call, em, mgr,
                 sched, fn_call>>
  /\ UNCHANGED <<now, ticks, trades, file, conversation_history,
                 market_state, current_trade_id>>

\* suggest_strategy up to line 256: the strategist call; its answer goes
\* into the conversation history.
SuggestStrategy ==
  /\ pc = "strategy"
  /\ \E ok \in BOOLEAN :
       LET called == [cyc EXCEPT !.calls =
                        Append(@, Call("strategist", {"analysis"}))]
       IN  IF ok
           THEN /\ conversation_history' =
                     Append(conversation_history,
                            Entry("strategist", "strategy"))
                /\ pc' = After("strategy")
                /\ cyc' = [called EXCEPT !.original_strategy = "strategy"]
           ELSE /\ pc' = "done"
                /\ cyc' = [called EXCEPT !.failed = "strategy"]
                /\ UNCHANGED conversation_history
  /\ UNCHANGED <<ledger_call, em, mgr,
                 sched, fn_call>>
  /\ UNCHANGED <<now, ticks, trades, file, market_state, current_trade_id,
                 cycles>>

\* _validate_strategy (line 259, lines 310-334): the validator answers with
\* the original strategy or with a corrected one; the answer becomes
\* strategy_result["strategy"] and is not put into the history.
ValidateStrategy ==
  /\ pc = "validate"
  /\ \E ok \in BOOLEAN, answer \in {"strategy", "corrected"} :
       LET called == [cyc EXCEPT !.calls =
                        Append(@, Call("validator",
                                       {cyc.original_strategy}))]
       IN  IF ok
           THEN /\ pc' = After("validate")
                /\ cyc' = [called EXCEPT !.strategy = answer]
           ELSE /\ pc' = "done"
                /\ cyc' = [called EXCEPT !.failed = "validation"]
  /\ UNCHANGED <<ledger_call, em, mgr,
                 sched, fn_call>>
  /\ UNCHANGED <<now, ticks, trades, file, conversation_history,
                 market_state, current_trade_id, cycles>>

\* evaluate_risk (lines 336-398).
EvaluateRisk ==
  /\ pc = "risk"
  /\ \E ok \in BOOLEAN, text \in RiskTexts :
       LET called == [cyc EXCEPT !.calls =
                        Append(@, Call("risk", {cyc.strategy}))]
       IN  IF ok
           THEN /\ conversation_history' =
                     Append(conversation_history,
                            Entry("risk", "risk_assessment"))
                /\ pc' = After("risk")
                /\ cyc' = [called EXCEPT !.risk_assessment = text]
           ELSE /\ pc' = "done"
                /\ cyc' = [called EXCEPT !.failed = "risk"]
                /\ UNCHANGED conversation_history
  /\ UNCHANGED <<ledger_call, em, mgr,
                 sched, fn_call>>
  /\ UNCHANGED <<now, ticks, trades, file, market_state, current_trade_id,
                 cycles>>

\* debate_strategy as make_final_decision calls it on line 459 (the
\* risk_result of the job has no key debated_strategy).
DebateStrategy ==
  /\ pc = "debate"
  /\ IF NeedsDebate(cyc.risk_assessment)
     THEN \E ok \in BOOLEAN :
            LET called == [cyc EXCEPT
                             !.calls =
                               Append(@, Call("debate",
                                              {cyc.strategy,
                                               "risk_assessment"}))]
            IN  IF ok
                THEN /\ conversation_history' =
                          Append(conversation_history,
                                 Entry("debate", "debate_result"))
                     /\ pc' = After("debate")
                     /\ cyc' = [called EXCEPT
                                  !.debated_strategy = "debate_result",
                                  !.was_debated = TRUE]
                ELSE /\ pc' = "done"
                     /\ cyc' = [called EXCEPT !.failed = "debate"]
                     /\ UNCHANGED conversation_history
     ELSE /\ pc' = After("debate")
          /\ cyc' = [cyc EXCEPT !.debated_strategy = cyc.strategy,
                                !.was_debated = FALSE]
          /\ UNCHANGED conversation_history
  /\ UNCHANGED <<ledger_call, em, mgr,
                 sched, fn_call>>
  /\ UNCHANGED <<now, ticks, trades, file, market_state, current_trade_id,
                 cycles>>

\* The decision_result of the except branch, lines 558-571.
SafeDefaultResult ==
  [made |-> TRUE, obj |-> SafeDefaultDecision, market_state |-> market_state,
   trade_id |-> 0]

\* make_final_decision from line 463: the prompt holds the last four
\* entries of the conversation history; the decision maker is called once;
\* a response that parses is recorded in the ledger.  response keeps the json_text of lines
\* 526-532 and the kind of value it carries.
FinalDecision ==
  /\ pc = "final"
  /\ LET window == Last(conversation_history, HistoryWindow)
         called == [cyc EXCEPT !.calls =
                        Append(@, Call("decision",
                                       {window[i].content :
                                          i \in 1..Len(window)}))]
     IN  \/ /\ pc' = "done"
            /\ cyc' = [called EXCEPT !.failed = "decision"]
            /\ UNCHANGED <<trades, file, conversation_history,
                           current_trade_id, ledger_call>>
         \/ \E text \in Responses, payload \in Payloads :
              LET outcome == ParseOutcome(text, payload)
                  ledger == add_trade(trades,
                                      [obj |-> payload.obj,
                                       market_state |-> market_state], now)
                  parsed == [called EXCEPT
                               !.parse = outcome,
                               !.response =
                                 [json_text |-> ExtractJson(text),
                                  kind |-> payload.kind]]
              IN  /\ pc' = After("final")
                  /\ IF outcome = "ok"
                     THEN /\ conversation_history' =
                               Append(conversation_history,
                                      Entry("decision", "decision_text"))
                          /\ trades' = ledger
                          /\ file' \in SaveOutcomes(ledger)
                          /\ current_trade_id' = ledger[Len(ledger)].trade_id
                          /\ ledger_call' =
                               [op |-> "add_trade", trade_id |-> 0,
                                returned |-> ledger[Len(ledger)].trade_id]
                          /\ cyc' = [parsed EXCEPT !.result =
                                       [made |-> TRUE, obj |-> payload.obj,
                                        market_state |-> market_state,
                                        trade_id |->
                                          ledger[Len(ledger)].trade_id]]
                     ELSE /\ cyc' = [parsed EXCEPT
                                       !.result = SafeDefaultResult]
                          /\ UNCHANGED <<trades, file, conversation_history,
                                         current_trade_id, ledger_call>>
  /\ UNCHANGED <<em, mgr,
                 sched, fn_call>>
  /\ UNCHANGED <<now, ticks, market_state, cycles>>

\* execute_decision(decision_result["decision"]) on line 134, then the
\* decision log of line 137 (a file of its own, not modelled).
ExecuteDecision ==
  /\ pc = "execute"
  /\ \E entry_ok \in BOOLEAN, position \in {"flat", "long"} :
       cyc' = [cyc EXCEPT !.exchange =
                 ExecuteCalls(cyc.result.obj, entry_ok, position)]
  /\ pc' = After("execute")
  /\ UNCHANGED <<ledger_call, em, mgr,
                 sched, fn_call>>
  /\ UNCHANGED <<now, ticks, trades, file, conversation_history,
                 market_state, current_trade_id, cycles>>

\* The job returns (line 144 or line 147); its locals are gone.
Return ==
  /\ pc = "done"
  /\ pc' = "idle"
  /\ cyc' = IdleCyc
  /\ UNCHANGED <<ledger_call, em, mgr,
                 sched, fn_call>>
  /\ UNCHANGED <<now, ticks, trades, file, conversation_history,
                 market_state, current_trade_id, cycles>>

Next ==
  \/ StartJob
  \/ AnalyzeMarket
  \/ PipelineEntry
  \/ SuggestStrategy
  \/ ValidateStrategy
  \/ EvaluateRisk
  \/ DebateStrategy
  \/ FinalDecision
  \/ ExecuteDecision
  \/ Return

Spec == Init /\ [][Next]_vars

(***************************************************************************)
(* The ledger on its own: TradeHistory driven through add_trade (the call  *)
(* of make_final_decision, line 546), update_trade_result and the passing  *)
(* of time.                                                                *)
(***************************************************************************)
\* Decisions as make_final_decision hands them to add_trade.
LedgerData ==
  {[obj |-> FullDecision(a), market_state |-> UnknownState] :
      a \in {OpenLong, OpenShort, Hold}}

\* add_trade (lines 32-41): the record is appended, the file rewritten and
\* the new id returned.
AddTrade ==
  /\ Len(trades) < MaxTrades
  /\ \E trade_data \in LedgerData :
       /\ trades' = add_trade(trades, trade_data, now)
       /\ file' \in SaveOutcomes(trades')
       /\ current_trade_id' = trades'[Len(trades')].trade_id
       /\ ledger_call' = [op |-> "add_trade", trade_id |-> 0,
                          returned |-> trades'[Len(trades')].trade_id]
  /\ UNCHANGED <<em, mgr,
                 sched, fn_call>>
  /\ UNCHANGED <<now, ticks, conversation_history, market_state, pc, cycles,
                 cyc>>

\* update_trade_result that reports success whatever the id.
update_trade_result_returns_Always(ledger, trade_id) == TRUE

\* The value update_trade_result returns (lines 46-51).
update_trade_result_returns(ledger, trade_id) ==
  FindTrade(ledger, trade_id) /= 0

\* LLMAgentManager.update_trade_result (lines 573-578) for a trade id that
\* is None (0), known or unknown; the file is rewritten when the record is
\* found (trade_history.py lines 43-51).
UpdateTradeResult ==
  /\ \E trade_id \in 0..(Len(trades) + 1), profit \in Profits :
       LET found == trade_id /= 0
                    /\ update_trade_result_returns(trades, trade_id)
       IN  /\ trades' = IF trade_id = 0 THEN trades
                        ELSE update_trade_result(trades, trade_id, profit,
                                                 now)
           /\ IF found THEN file' \in SaveOutcomes(trades')
              ELSE file' = file
           /\ ledger_call' = [op |-> "update_trade_result",
                              trade_id |-> trade_id, returned |-> found]
  /\ UNCHANGED <<em, mgr,
                 sched, fn_call>>
  /\ UNCHANGED <<now, ticks, conversation_history, market_state,
                 current_trade_id, pc, cycles, cyc>>

\* Time passes.
Tick ==
  /\ ticks < MaxTicks
  /\ ticks' = ticks + 1
  /\ \E d \in ClockSteps : now' = now + d
  /\ UNCHANGED <<trades, file, conversation_history, market_state,
                 current_trade_id, pc, cycles, cyc, ledger_call, em, mgr,
                 sched, fn_call>>

\* The process is started again: LLMAgentManager.__init__ builds a new
\* TradeHistory (line 31), whose constructor loads the file.
Restart ==
  /\ trades' = TradeHistoryInit(file).trades
  /\ ledger_call' = [InitCall EXCEPT
                       !.returned = ~TradeHistoryInit(file).raised]
  /\ current_trade_id' = 0
  /\ UNCHANGED <<now, ticks, file, conversation_history, market_state, pc,
                 cycles, cyc, em, mgr,
                 sched, fn_call>>

NextLedger ==
  \/ AddTrade
  \/ UpdateTradeResult
  \/ Tick
  \/ Restart

SpecLedger == Init /\ [][NextLedger]_vars

(***************************************************************************)
(* The classifier on its own: classify_market applied to a missing series  *)
(* and to series of every length up to MaxBars, as analyze_market applies  *)
(* it on line 89.                                                          *)
(***************************************************************************)
ClassifierInputs == {NoSeries} \cup 0..MaxBars

Classify ==
  /\ \E n \in ClassifierInputs :
       LET c == classify_market(n)
       IN  /\ cyc' = [IdleCyc EXCEPT
                        !.driver = "classifier", !.nbars = n,
                        !.failed = IF c.raised THEN "classify_market"
                                   ELSE "none"]
           /\ market_state' = IF c.raised THEN market_state ELSE c.state
  /\ UNCHANGED <<ledger_call, em, mgr,
                 sched, fn_call>>
  /\ UNCHANGED <<now, ticks, trades, file, conversation_history,
                 current_trade_id, pc, cycles>>

NextClassifier == Classify

SpecClassifier == Init /\ [][NextClassifier]_vars

(***************************************************************************)
(* The emergency check of the trader: LLMTrader.emergency_check_job        *)
(* (main.py lines 149-185) with LLMAgentManager.check_emergency            *)
(* (llm_agent_manager.py lines 580-661).  An emergency answer is a JSON    *)
(* object whose key is_emergency holds true or false and whose key action  *)
(* names ping cang (close), tiao zheng zhi sun (adjust the stop) or wu xu  *)
(* cao zuo (nothing to do).                                                *)
(***************************************************************************)
MaxChecks == 2      \* emergency_check_job runs started in one run

AdjustStop == <<"tiao", "zheng", "zhi", "sun">>

NoAction == <<"wu", "xu", "cao", "zuo">>

EmergencyActions == {ClosePosition, AdjustStop, NoAction}

\* get_position_info of the emergency job: None, or a position of size 0,
\* above 0 or below 0.
EmergencyPositions == Positions \cup {"short"}

\* IsFlat that lets a position of size 0 through.
IsFlat_OnlyNone(position) == position = "None"

\* position_info is None or position_info['size'] == 0 (main.py line 159,
\* llm_agent_manager.py line 582).
IsFlat(position) == position \in {"None", "flat"}

\* The values json.loads may return for an emergency response.
EmergencyPayloads ==
  {[kind |-> "object",
    obj |-> [k \in {"is_emergency", "action"} |->
               IF k = "is_emergency" THEN e ELSE a]] :
      e \in {<<"true">>, <<"false">>}, a \in EmergencyActions}
  \cup {[kind |-> "object", obj |-> [k \in {"is_emergency"} |-> <<"true">>]],
        [kind |-> "object", obj |-> [k \in {"action"} |-> ClosePosition]],
        [kind |-> "array", obj |-> EmptyObj],
        [kind |-> "invalid", obj |-> EmptyObj]}

\* Truth value of a JSON value in a Python condition.
Truthy(v) == v \notin {<<"false">>, <<"null">>, <<"0">>, <<>>, <<"None">>}

\* emergency["is_emergency"] (line 650) raises TypeError on a value that is
\* not a dict and KeyError on a dict without the key.
SubscriptRaises(payload) ==
  payload.kind /= "object" \/ "is_emergency" \notin DOMAIN payload.obj

\* Outcome of the try block of check_emergency (lines 638-661).
ParseEmergency(text, payload) ==
  IF ~JsonLoads(ExtractJson(text), payload) THEN "json_error"
  ELSE IF SubscriptRaises(payload) THEN "key_error"
  ELSE "ok"

\* IsCloseAction that also closes on the advice to adjust the stop.
IsCloseAction_AlsoAdjust(action) == action \in {ClosePosition, AdjustStop}

\* emergency_result.get('action') == ping cang (main.py line 175).
IsCloseAction(action) == action = ClosePosition

\* Lines 151-160: the market data and the position are fetched; the job
\* returns without market data, and without a position that is open.
EmergencyStart ==
  /\ em.phase = "idle"
  /\ em.runs < MaxChecks
  /\ \E n \in {NoSeries} \cup JobBarCounts, pos \in EmergencyPositions :
       em' = IF n = NoSeries
             THEN [IdleEm EXCEPT !.runs = em.runs + 1, !.driver = "job",
                                 !.nbars = n, !.phase = "done",
                                 !.failed = "market_data"]
             ELSE [IdleEm EXCEPT !.runs = em.runs + 1, !.driver = "job",
                                 !.nbars = n, !.position = pos,
                                 !.phase = IF IsFlat(pos) THEN "done"
                                           ELSE "check"]
  /\ UNCHANGED <<now, ticks, trades, file, conversation_history,
                 market_state, current_trade_id, pc, cycles, cyc,
                 ledger_call, mgr, sched, fn_call>>

\* Lines 163-182 run by a caller that holds a series long enough for
\* prepare_market_context and a position info.
EmergencyEntry ==
  /\ em.phase = "idle"
  /\ em.runs < MaxChecks
  /\ \E pos \in EmergencyPositions :
       em' = [IdleEm EXCEPT !.runs = em.runs + 1, !.driver = "handler",
                            !.nbars = Lookback24h, !.position = pos,
                            !.phase = "check"]
  /\ UNCHANGED <<now, ticks, trades, file, conversation_history,
                 market_state, current_trade_id, pc, cycles, cyc,
                 ledger_call, mgr, sched, fn_call>>

\* llm_agent.check_emergency(market_data, position_info) on line 163.  The
\* market context is built outside the try block, and the reasoning call
\* is made outside it: what they raise ends the job on line 184.
CheckEmergency ==
  /\ em.phase = "check"
  /\ IF IsFlat(em.position)
     THEN /\ em' = [em EXCEPT !.phase = "act", !.result = NoEmergency]
          /\ UNCHANGED conversation_history
     ELSE IF prepare_market_context_raises(em.nbars)
     THEN /\ em' = [em EXCEPT !.phase = "done", !.failed = "market_context"]
          /\ UNCHANGED conversation_history
     ELSE \E ok \in BOOLEAN, text \in Responses,
             payload \in EmergencyPayloads :
            LET parse == ParseEmergency(text, payload)
                called == Append(em.calls, Call("emergency", {}))
            IN  IF ~ok
                THEN /\ em' = [em EXCEPT !.phase = "done",
                                         !.failed = "emergency",
                                         !.calls = called]
                     /\ UNCHANGED conversation_history
                ELSE /\ em' = [em EXCEPT
                                 !.phase = "act", !.calls = called,
                                 !.parse = parse,
                                 !.result = IF parse = "ok" THEN payload.obj
                                            ELSE NoEmergency]
                     /\ conversation_history' =
                          IF parse = "ok"
                             /\ Truthy(payload.obj["is_emergency"])
                          THEN Append(conversation_history,
                                      Entry("emergency", "emergency"))
                          ELSE conversation_history
  /\ UNCHANGED <<now, ticks, trades, file, market_state, current_trade_id,
                 pc, cycles, cyc, ledger_call, mgr, sched, fn_call>>

\* Lines 165-182: an emergency is logged, and closed on when the advice is
\* to close; close_all_positions reads the position again.
EmergencyAct ==
  /\ em.phase = "act"
  /\ LET fired == Truthy(Get(em.result, "is_emergency", <<"false">>))
         close == fired /\ IsCloseAction(Get(em.result, "action", <<"None">>))
     IN  \E position \in EmergencyPositions :
           em' = [em EXCEPT !.phase = "done", !.fired = fired,
                            !.logged = fired, !.close_invoked = close,
                            !.exchange = IF close THEN CloseCalls(position)
                                         ELSE <<>>]
  /\ UNCHANGED <<now, ticks, trades, file, conversation_history,
                 market_state, current_trade_id, pc, cycles, cyc,
                 ledger_call, mgr, sched, fn_call>>

\* The job returns (line 155, 160, 182 or 185); its locals are gone.
EmergencyReturn ==
  /\ em.phase = "done"
  /\ em' = [IdleEm EXCEPT !.runs = em.runs]
  /\ UNCHANGED <<now, ticks, trades, file, conversation_history,
                 market_state, current_trade_id, pc, cycles, cyc,
                 ledger_call, mgr, sched, fn_call>>

NextEmergency ==
  \/ EmergencyStart
  \/ EmergencyEntry
  \/ CheckEmergency
  \/ EmergencyAct
  \/ EmergencyReturn

SpecEmergency == Init /\ [][NextEmergency]_vars

(***************************************************************************)
(* The stand-alone monitor: EmergencyManager.check_emergency               *)
(* (emergency_manager.py lines 26-71).  Percentages are whole numbers and  *)
(* a risk score is counted in tenths.                                      *)
(***************************************************************************)
MonitorKlineLimit == 100      \* limit=100 of _get_market_data (line 80)
LiquidationThreshold == -15   \* self.liquidation_threshold (line 21)
RiskCutoff == 8               \* risk_score > 0.8 (line 55), in tenths

\* Bar counts _get_market_data returns: None when the call fails, else at
\* most the 100 bars asked for.
MonitorBarCounts == {NoSeries, 0, Lookback1h, MonitorKlineLimit}

\* Unrealized profit in percent of the entry value.
PnlPercentages == {-20, LiquidationThreshold, 0}

\* Risk scores the reasoning service answers, in tenths.
RiskScores == {0, RiskCutoff, RiskCutoff + 1}

\* _check_position_risk (lines 193-211).
check_position_risk(position, pnl_percentage) ==
  IF IsFlat(position) THEN FALSE
  ELSE pnl_percentage < LiquidationThreshold

\* _assess_risk (lines 117-145): 0 without a position info, else the score
\* of the answer.
assess_risk(position, answer) == IF position = "None" THEN 0 ELSE answer

\* check_emergency (lines 26-71).  The market context is built on line 35
\* inside the try block: what prepare_market_context raises is caught on
\* line 69 and the method returns False.
\* The parameters are the number of bars fetched, the position with its
\* profit in percent, the three triggers computed from the bars and the
\* score of the reasoning service.
check_emergency(nbars, position, pnl, volatility, volume, price, answer) ==
  IF nbars = NoSeries THEN FALSE
  ELSE IF prepare_market_context_raises(nbars) THEN FALSE
  ELSE \/ volatility
       \/ volume
       \/ price
       \/ check_position_risk(position, pnl)
       \/ assess_risk(position, answer) > RiskCutoff

MonitorCheck ==
  /\ \E n \in MonitorBarCounts, position \in EmergencyPositions,
        pnl \in PnlPercentages, vol \in BOOLEAN, volume \in BOOLEAN,
        price \in BOOLEAN, answer \in RiskScores :
       mgr' = [made |-> TRUE, nbars |-> n, position |-> position,
               pnl_percentage |-> pnl, volatility_emergency |-> vol,
               volume_emergency |-> volume, price_emergency |-> price,
               risk_score |-> assess_risk(position, answer),
               is_emergency |->
                 check_emergency(n, position, pnl, vol, volume, price,
                                 answer)]
  /\ UNCHANGED <<now, ticks, trades, file, conversation_history,
                 market_state, current_trade_id, pc, cycles, cyc,
                 ledger_call, em, sched, fn_call>>

NextMonitor == MonitorCheck

SpecMonitor == Init /\ [][NextMonitor]_vars

(***************************************************************************)
(* The position risk gate: PositionManager.get_position_risk               *)
(* (position_manager.py lines 63-110).  Prices and profits are whole       *)
(* numbers; the two percentages are rationals.                             *)
(***************************************************************************)
\* r <= k and r < k for a rational r and an integer k.
Leq(r, k) == r[1] <= k * r[2]

Less(r, k) == r[1] < k * r[2]

\* Position fields the exchange reports: the size (0 is flat), the entry,
\* the mark and the liquidation price (0 when the exchange names none) and
\* the unrealized profit.
RiskSizes == {-1, 0, 1}

RiskEntryPrices == {100}

RiskMarkPrices == {90, 100}

RiskLiquidationPrices == {0, 80, 85, 90, 95, 96}

RiskProfits == {-20, -11, -10, -6, -5, 0}

RiskPositions ==
  [fetched : BOOLEAN, size : RiskSizes, entry_price : RiskEntryPrices,
   mark_price : RiskMarkPrices, liquidation_price : RiskLiquidationPrices,
   unrealized_pnl : RiskProfits]

\* _calculate_risk_level with the profit rules ahead of the liquidation
\* rules.
calculate_risk_level_ProfitFirst(pnl_percentage, liquidation_distance) ==
  IF Less(pnl_percentage, -10) THEN "medium"
  ELSE IF Less(pnl_percentage, -5) THEN "low"
  ELSE IF Leq(liquidation_distance, 5) THEN "extreme"
  ELSE IF Leq(liquidation_distance, 10) THEN "high"
  ELSE "safe"

\* _calculate_risk_level (lines 99-110).
calculate_risk_level(pnl_percentage, liquidation_distance) ==
  IF Leq(liquidation_distance, 5) THEN "extreme"
  ELSE IF Leq(liquidation_distance, 10) THEN "high"
  ELSE IF Less(pnl_percentage, -10) THEN "medium"
  ELSE IF Less(pnl_percentage, -5) THEN "low"
  ELSE "safe"

\* What get_position_risk returns when it raises (line 97).
NoRisk ==
  [risk_level |-> "None", pnl_percentage |-> Zero,
   liquidation_distance |-> Zero]

\* get_position_risk (lines 63-97) for the position get_position_info
\* returns; the division by a mark price of 0 raises.
get_position_risk(position) ==
  IF ~position.fetched \/ position.size = 0
  THEN [risk_level |-> "none", pnl_percentage |-> Zero,
        liquidation_distance |-> Zero]
  ELSE LET entry_value == Abs(position.size * position.entry_price)
           pnl_percentage ==
             IF entry_value > 0
             THEN Ratio(position.unrealized_pnl * 100, entry_value)
             ELSE Zero
           current_price == position.mark_price
           liquidation_price == position.liquidation_price
       IN  IF liquidation_price > 0 /\ current_price = 0 THEN NoRisk
           ELSE LET liquidation_distance ==
                      IF liquidation_price > 0
                      THEN Ratio(Abs(current_price - liquidation_price) * 100,
                                 Abs(current_price))
                      ELSE <<100, 1>>
                IN  [risk_level |->
                       calculate_risk_level(pnl_percentage,
                                            liquidation_distance),
                     pnl_percentage |-> pnl_percentage,
                     liquidation_distance |-> liquidation_distance]

GetPositionRisk ==
  /\ \E position \in RiskPositions :
       fn_call' = [fn |-> "get_position_risk", args |-> position,
                   result |-> get_position_risk(position)]
  /\ UNCHANGED <<now, ticks, trades, file, conversation_history,
                 market_state, current_trade_id, pc, cycles, cyc,
                 ledger_call, em, mgr, sched>>

NextRisk == GetPositionRisk

SpecRisk == Init /\ [][NextRisk]_vars

(***************************************************************************)
(* The scheduler: start and run_schedule (main.py lines 46-66).  One       *)
(* thread calls schedule.run_pending() once a second; run_pending runs the *)
(* jobs that are due one after the other, in the order of their due times, *)
(* and sets the next due time of a job when the job has returned.  A run   *)
(* of a job is the sequence of its blocking calls; the clock may advance   *)
(* at any moment, also while a call is in flight.                          *)
(***************************************************************************)
MaxClock == 5       \* the clock of the scheduler stops here

\* The jobs in the order start() registers them (lines 51-52).
Jobs == <<"strategy", "emergency">>

\* The steps of a job that may fail, in the order of its code: the fetch of
\* the market data and the position, the reasoning calls, the parsing of
\* the answer, the ledger write of add_trade and the exchange calls that
\* change the position.
Plan(job) ==
  IF job = "strategy"
  THEN <<"fetch", "reasoning", "parse", "ledger", "exchange">>
  ELSE <<"fetch", "reasoning", "parse", "exchange">>

\* Handling with the except of the job taken away: what a reasoning call
\* raises leaves the job.
Handling_NoJobExcept(kind) ==
  CASE kind = "fetch" -> "return"
    [] kind = "reasoning" -> "propagate"
    [] OTHER -> "continue"

\* What becomes of the exception a call raises: get_market_data returns
\* None and the job returns (lines 104-106, 154-155); the except of the job
\* catches what a reasoning call raises (lines 146, 184); the parsers of
\* make_final_decision and check_emergency, save_history, execute_decision
\* and close_all_positions catch their own.
Handling(kind) ==
  CASE kind = "fetch" -> "return"
    [] kind = "reasoning" -> "except"
    [] OTHER -> "continue"

\* ThreadBusy for a scheduler that hands every job to a thread of its own.
ThreadBusy_Never(runs) == FALSE

\* The scheduler thread is inside a job (run_pending calls the job).
ThreadBusy(runs) == runs /= <<>>

\* The next due time counted from the last due time.
schedule_next_run_FromDue(clock, due, job) == due + Interval(job)

\* The next due time of a job that has returned at clock: one interval
\* after its return.
schedule_next_run(clock, due, job) == clock + Interval(job)

\* s without its element i.
RemoveAt(s, i) == SubSeq(s, 1, i - 1) \o SubSeq(s, i + 1, Len(s))

JobsInFlight == {sched.runs[i].job : i \in 1..Len(sched.runs)}

Due(job) == sched.clock >= sched.next_run[job]

SchedUnchanged ==
  UNCHANGED <<now, ticks, trades, file, conversation_history, market_state,
              current_trade_id, pc, cycles, cyc, ledger_call, em, mgr,
              fn_call>>

\* Time passes.
SchedTick ==
  /\ sched.clock < MaxClock
  /\ sched' = [sched EXCEPT !.clock = @ + 1]
  /\ SchedUnchanged

\* run_pending (line 65): the jobs that are due, sorted by due time.
RunPending ==
  /\ sched.alive
  /\ ~ThreadBusy(sched.runs)
  /\ sched.queue = <<>>
  /\ LET due == {i \in 1..Len(Jobs) : Due(Jobs[i])}
         first == CHOOSE i \in due :
                    \A k \in due :
                       \/ sched.next_run[Jobs[i]] < sched.next_run[Jobs[k]]
                       \/ /\ sched.next_run[Jobs[i]] = sched.next_run[Jobs[k]]
                          /\ i <= k
     IN  /\ due /= {}
         /\ sched' = [sched EXCEPT !.queue =
                        <<Jobs[first]>>
                        \o (IF due = {first} THEN <<>>
                            ELSE <<Jobs[CHOOSE k \in due : k /= first]>>)]
  /\ SchedUnchanged

\* run_pending calls the next job of its list.
JobStart ==
  /\ sched.alive
  /\ ~ThreadBusy(sched.runs)
  /\ sched.queue /= <<>>
  /\ sched' = [sched EXCEPT
                 !.queue = Tail(@),
                 !.runs = Append(@, [job |-> Head(sched.queue),
                                     started |-> sched.clock, at |-> 0,
                                     phase |-> "run", hung |-> FALSE,
                                     failed |-> "none"])]
  /\ SchedUnchanged

\* The job makes its next blocking call; the ledger write and the exchange
\* calls are made only when the decision asks for them.
JobCall ==
  /\ \E i \in 1..Len(sched.runs) :
       LET r == sched.runs[i]
       IN  /\ r.phase = "run"
           /\ r.at < Len(Plan(r.job))
           /\ \E k \in (r.at + 1)..Len(Plan(r.job)) :
                /\ \A m \in (r.at + 1)..(k - 1) :
                      Plan(r.job)[m] \in {"ledger", "exchange"}
                /\ sched' = [sched EXCEPT !.runs[i].at = k,
                                          !.runs[i].phase = "call"]
  /\ SchedUnchanged

\* The job has returned: run_pending sets its next due time.
Ended(i, failed) ==
  LET r == sched.runs[i]
  IN  [sched EXCEPT
         !.runs = RemoveAt(@, i),
         !.next_run[r.job] =
            schedule_next_run(sched.clock, sched.next_run[r.job], r.job),
         !.last_end[r.job] = sched.clock,
         !.dropped[r.job] = (sched.clock - r.started) \div Interval(r.job),
         !.last_failed[r.job] = failed]

\* The call in flight returns or raises.  What leaves the job leaves
\* run_pending and run_schedule: the scheduler thread ends.
CallReturns ==
  /\ \E i \in 1..Len(sched.runs), raised \in BOOLEAN :
       LET r == sched.runs[i]
           kind == Plan(r.job)[r.at]
       IN  /\ r.phase = "call"
           /\ ~r.hung
           /\ sched' =
                IF ~raised
                THEN [sched EXCEPT !.runs[i].phase = "run"]
                ELSE CASE Handling(kind) = "continue" ->
                            [sched EXCEPT !.runs[i].phase = "run",
                                          !.runs[i].failed = kind]
                       [] Handling(kind) \in {"return", "except"} ->
                            Ended(i, kind)
                       [] OTHER ->
                            [sched EXCEPT !.runs = RemoveAt(@, i),
                                          !.alive = FALSE,
                                          !.last_failed[r.job] = kind]
  /\ SchedUnchanged

\* The reasoning service never answers the call in flight: create() is
\* called without a timeout (llm_agent_manager.py lines 142-146, 517-521,
\* 632-636), so the call stays in flight.
CallHangs ==
  /\ \E i \in 1..Len(sched.runs) :
       LET r == sched.runs[i]
       IN  /\ r.phase = "call"
           /\ Plan(r.job)[r.at] = "reasoning"
           /\ ~r.hung
           /\ sched' = [sched EXCEPT !.runs[i].hung = TRUE]
  /\ SchedUnchanged

\* The job returns: after its last call, without the calls its decision
\* does not ask for, on a position that is flat (line 160), or through its
\* except when a statement between two calls raises.
JobEnd ==
  /\ \E i \in 1..Len(sched.runs) :
       LET r == sched.runs[i]
       IN  /\ r.phase = "run"
           /\ r.at >= 1
           /\ sched' = Ended(i, r.failed)
  /\ SchedUnchanged

NextScheduler ==
  \/ SchedTick
  \/ RunPending
  \/ JobStart
  \/ JobCall
  \/ CallReturns
  \/ CallHangs
  \/ JobEnd

SpecScheduler == Init /\ [][NextScheduler]_vars

(***************************************************************************)
(* The trend rules: MarketClassifier._identify_trend                       *)
(* (market_classifier.py lines 67-90).  A change is the rational           *)
(* prices.iloc[-1] / prices.iloc[-k] - 1.                                  *)
(***************************************************************************)
TrendThreshold == <<3, 100>>        \* self.trend_threshold = 0.03

HalfTrendThreshold == <<3, 200>>    \* self.trend_threshold / 2

\* x < y, -x and |x| for rationals.
RLess(x, y) == x[1] * y[2] < y[1] * x[2]

RNeg(x) == <<-x[1], x[2]>>

RAbs(x) == <<Abs(x[1]), x[2]>>

\* The last price and the prices 5, 20 and 50 bars back that a series of 50
\* bars or more may hold.
LastPrice == 1000

BackPrices == {950, 970, 971, 985, 990, 1000, 1010, 1016, 1031, 1050}

\* prices.iloc[-1] / prices.iloc[-k] - 1
Change(last, back) == Ratio(last - back, back)

\* _identify_trend with the two strong rules ahead of the sideways rule.
identify_trend_StrongFirst(short_change, medium_change, long_change) ==
  LET pos(x) == RLess(Zero, x)
      neg(x) == RLess(x, Zero)
  IN  IF RLess(TrendThreshold, short_change) /\ pos(medium_change)
      THEN "uptrend"
      ELSE IF RLess(short_change, RNeg(TrendThreshold)) /\ neg(medium_change)
      THEN "downtrend"
      ELSE IF pos(short_change) /\ pos(medium_change) /\ pos(long_change)
      THEN "strong_uptrend"
      ELSE IF neg(short_change) /\ neg(medium_change) /\ neg(long_change)
      THEN "strong_downtrend"
      ELSE IF RLess(RAbs(medium_change), HalfTrendThreshold)
      THEN "sideways"
      ELSE IF pos(short_change) /\ neg(medium_change) THEN "pullback"
      ELSE IF neg(short_change) /\ pos(medium_change) THEN "correction"
      ELSE "mixed"

\* The rules of lines 75-90 in their order.
identify_trend(short_change, medium_change, long_change) ==
  LET pos(x) == RLess(Zero, x)
      neg(x) == RLess(x, Zero)
  IN  IF RLess(TrendThreshold, short_change) /\ pos(medium_change)
      THEN "uptrend"
      ELSE IF RLess(short_change, RNeg(TrendThreshold)) /\ neg(medium_change)
      THEN "downtrend"
      ELSE IF RLess(RAbs(medium_change), HalfTrendThreshold)
      THEN "sideways"
      ELSE IF pos(short_change) /\ pos(medium_change) /\ pos(long_change)
      THEN "strong_uptrend"
      ELSE IF neg(short_change) /\ neg(medium_change) /\ neg(long_change)
      THEN "strong_downtrend"
      ELSE IF pos(short_change) /\ neg(medium_change) THEN "pullback"
      ELSE IF neg(short_change) /\ pos(medium_change) THEN "correction"
      ELSE "mixed"

IdentifyTrend ==
  /\ \E short \in BackPrices, medium \in BackPrices, long \in BackPrices :
       LET short_change == Change(LastPrice, short)
           medium_change == Change(LastPrice, medium)
           long_change == Change(LastPrice, long)
       IN  fn_call' =
             [fn |-> "identify_trend",
              args |-> [short_change |-> short_change,
                        medium_change |-> medium_change,
                        long_change |-> long_change],
              result |-> identify_trend(short_change, medium_change,
                                        long_change)]
  /\ UNCHANGED <<now, ticks, trades, file, conversation_history,
                 market_state, current_trade_id, pc, cycles, cyc,
                 ledger_call, em, mgr, sched>>

NextTrend == IdentifyTrend

SpecTrend == Init /\ [][NextTrend]_vars

(***************************************************************************)
(* Support and resistance: MarketClassifier._identify_support_resistance   *)
(* and _merge_close_levels (market_classifier.py lines 131-191).  A series *)
(* is a sequence of bars; position -k of pandas' iloc is bar Len + 1 - k   *)
(* and position k >= 0 is bar k + 1.                                       *)
(***************************************************************************)
LevelLookback == 100                \* min(100, len(close_prices))

NumLevels == 3                      \* n_levels=3

MergeThreshold == <<5, 1000>>       \* threshold_pct=0.005

MinSeries == 5

MaxSeries == 7

\* The bars a series is made of.
Bars ==
  {[low |-> 1, high |-> 5, close |-> 3],
   [low |-> 2, high |-> 4, close |-> 2],
   [low |-> 3, high |-> 6, close |-> 4]}

LevelSeries == UNION {[1..n -> Bars] : n \in MinSeries..MaxSeries}

Column(series, field) == [k \in 1..Len(series) |-> series[k][field]]

\* prices.iloc[k]
iloc(prices, k) == IF k < 0 THEN prices[Len(prices) + k + 1] ELSE prices[k + 1]

\* The test of lines 141-142 (sign 1) and 146-147 (sign -1) at loop index i.
IsLocalExtreme(prices, i, sign) ==
  /\ sign * iloc(prices, -i) < sign * iloc(prices, -i - 1)
  /\ sign * iloc(prices, -i) < sign * iloc(prices, -i - 2)
  /\ sign * iloc(prices, -i) < sign * iloc(prices, -i + 1)
  /\ sign * iloc(prices, -i) < sign * iloc(prices, -i + 2)

\* The loops of lines 140-143 and 145-148: for i in range(2, lookback-2).
RECURSIVE LevelCandidates(_, _, _, _)
LevelCandidates(prices, i, lookback, sign) ==
  IF i >= lookback - 2 THEN <<>>
  ELSE (IF IsLocalExtreme(prices, i, sign)
        THEN <<iloc(prices, -i)>> ELSE <<>>)
       \o LevelCandidates(prices, i + 1, lookback, sign)

\* sorted(levels) for integer levels.
RECURSIVE SortLevels(_)
SortLevels(levels) ==
  IF levels = <<>> THEN <<>>
  ELSE LET k == CHOOSE k \in 1..Len(levels) :
                  \A j \in 1..Len(levels) : levels[k] <= levels[j]
       IN  <<levels[k]>>
           \o SortLevels([j \in 1..(Len(levels) - 1) |->
                            IF j < k THEN levels[j] ELSE levels[j + 1]])

\* The loop of lines 178-185 over the sorted levels from position k on, with
\* the running group; a level joins the group when it lies within
\* threshold_pct of the group's average.
RECURSIVE MergeFrom(_, _, _)
MergeFrom(levels, k, current_group) ==
  LET total == SumSeq(current_group)
      count == Len(current_group)
      group_avg == Ratio(total, count)
  IN  IF k > Len(levels) THEN <<group_avg>>
      ELSE IF Abs(levels[k] * count - total) * MergeThreshold[2]
                < MergeThreshold[1] * total
      THEN MergeFrom(levels, k + 1, Append(current_group, levels[k]))
      ELSE <<group_avg>> \o MergeFrom(levels, k + 1, <<levels[k]>>)

merge_close_levels(levels) ==
  IF levels = <<>> THEN <<>>
  ELSE LET sorted == SortLevels(levels)
       IN  MergeFrom(sorted, 2, <<sorted[1]>>)

Reverse(s) == [k \in 1..Len(s) |-> s[Len(s) + 1 - k]]

\* Lines 156-161: the levels on one side of the current price, nearest
\* first, at most n_levels of them.  The merged levels are ascending.
NearestLevels(merged, current_price, sign) ==
  LET side == SelectSeq(merged,
                        LAMBDA level :
                          IF sign = 1 THEN RLess(level, <<current_price, 1>>)
                          ELSE RLess(<<current_price, 1>>, level))
      nearest == IF sign = 1 THEN Reverse(side) ELSE side
  IN  SubSeq(nearest, 1, IF Len(nearest) < NumLevels THEN Len(nearest)
                         ELSE NumLevels)

identify_support_resistance(high_prices, low_prices, close_prices) ==
  LET lookback == IF Len(close_prices) < LevelLookback
                  THEN Len(close_prices) ELSE LevelLookback
      support_levels == LevelCandidates(low_prices, 2, lookback, 1)
      resistance_levels == LevelCandidates(high_prices, 2, lookback, -1)
      current_price == iloc(close_prices, -1)
  IN  [support_levels |-> support_levels,
       resistance_levels |-> resistance_levels,
       support |-> NearestLevels(merge_close_levels(support_levels),
                                 current_price, 1),
       resistance |-> NearestLevels(merge_close_levels(resistance_levels),
                                    current_price, -1)]

\* A series of bars, before _identify_support_resistance is called on it.
InitLevels ==
  /\ fn_call \in {[fn |-> "none",
                   args |-> [high_prices |-> Column(series, "high"),
                             low_prices |-> Column(series, "low"),
                             close_prices |-> Column(series, "close")],
                   result |-> [support_levels |-> <<>>,
                               resistance_levels |-> <<>>,
                               support |-> <<>>, resistance |-> <<>>]] :
                    series \in LevelSeries}
  /\ now = 0
  /\ ticks = 0
  /\ file = [state |-> "absent", trades |-> <<>>]
  /\ trades = load_history(file)
  /\ conversation_history = <<>>
  /\ market_state = NoneState
  /\ current_trade_id = 0
  /\ pc = "idle"
  /\ cycles = 0
  /\ cyc = IdleCyc
  /\ ledger_call = InitCall
  /\ em = IdleEm
  /\ mgr = NoCheck
  /\ sched = IdleSched

\* classify_market's call on line 50.
IdentifySupportResistance ==
  /\ fn_call' = [fn_call EXCEPT
                   !.fn = "identify_support_resistance",
                   !.result = identify_support_resistance(
                                fn_call.args.high_prices,
                                fn_call.args.low_prices,
                                fn_call.args.close_prices)]
  /\ UNCHANGED <<now, ticks, trades, file, conversation_history,
                 market_state, current_trade_id, pc, cycles, cyc,
                 ledger_call, em, mgr, sched>>

NextLevels == IdentifySupportResistance

SpecLevels == InitLevels /\ [][NextLevels]_vars

(***************************************************************************)
(* The market summary: PromptManager.prepare_market_context                *)
(* (prompt_manager.py lines 140-150), by the length of the series.         *)
(***************************************************************************)
ContextMargin == 60

\* Series lengths around the two lookbacks, and the lengths the jobs fetch.
ContextBarCounts ==
  (0..(Lookback1h + ContextMargin))
    \cup ((Lookback24h - ContextMargin)..(Lookback24h + ContextMargin))
    \cup {MonitorKlineLimit, KlineLimit}

\* The keys of the returned dict, in the order their values are computed.
ContextFields ==
  <<"current_price", "price_change_1h", "price_change_24h", "volume_change",
    "volatility_1h", "volatility_24h">>

\* The dict display evaluates its values in order; an IndexError leaves the
\* function with nothing returned.  tail(k) of a shorter series is the whole
\* series and does not raise.
prepare_market_context(nbars) ==
  IF prepare_market_context_raises(nbars)
  THEN [raised |-> TRUE, context |-> {}]
  ELSE [raised |-> FALSE, context |-> Range(ContextFields)]

PrepareMarketContext ==
  /\ \E nbars \in ContextBarCounts :
       fn_call' = [fn |-> "prepare_market_context",
                   args |-> [nbars |-> nbars],
                   result |-> prepare_market_context(nbars)]
  /\ UNCHANGED <<now, ticks, trades, file, conversation_history,
                 market_state, current_trade_id, pc, cycles, cyc,
                 ledger_call, em, mgr, sched>>

NextContext == PrepareMarketContext

SpecContext == Init /\ [][NextContext]_vars

(***************************************************************************)
(* The summaries by regime: LLMAgentManager._analyze_historical_performance*)
(* (llm_agent_manager.py lines 268-308) and                                *)
(* TradeHistory.analyze_market_conditions (trade_history.py lines 142-197),*)
(* applied to the ledgers that make_final_decision (line 546) and          *)
(* update_trade_result write.                                              *)
(***************************************************************************)
MaxHistory == 2     \* records of a ledger handed to the summaries

\* Regimes self.market_state may hold when make_final_decision stores it
\* (line 537): None before the first classification, the regime of a short
\* series, and classified regimes.
HistoryRegimes ==
  {NoneState, UnknownState,
   [trend |-> "uptrend", volatility |-> "high", momentum |-> "strong"],
   [trend |-> "downtrend", volatility |-> "high", momentum |-> "weak"]}

\* The regimes analyze_market hands on (line 159): classify_market's value.
CurrentRegimes == HistoryRegimes \ {NoneState}

\* Decisions as make_final_decision hands them to add_trade.
HistoryData ==
  {[obj |-> FullDecision(a), market_state |-> m] :
      a \in {OpenLong, OpenShort}, m \in HistoryRegimes}

\* Days at which a decision was recorded, and the days of the summary.
HistoryTimes == {0, 1}

HistoryClocks == {DefaultDays, DefaultDays + 1}

\* No outcome, or the profit handed to update_trade_result.
Outcomes == {<<>>} \cup {<<p>> : p \in Profits}

\* add_trade of a decision at time t, then update_trade_result of the new
\* record when an outcome arrives.
Recorded(ledger, trade_data, t, outcome, clock) ==
  LET added == add_trade(ledger, trade_data, t)
  IN  IF outcome = <<>> THEN added
      ELSE update_trade_result(added, NewTradeId(ledger), outcome[1], clock)

RECURSIVE LedgersOfLen(_, _)
LedgersOfLen(n, clock) ==
  IF n = 0 THEN {<<>>}
  ELSE UNION {{Recorded(l, d, t, r, clock) :
                 d \in HistoryData,
                 t \in {u \in HistoryTimes :
                          l = <<>> \/ u >= l[Len(l)].timestamp},
                 r \in Outcomes} :
              l \in LedgersOfLen(n - 1, clock)}

HistoryLedgers(clock) == UNION {LedgersOfLen(n, clock) : n \in 0..MaxHistory}

\* trade.get("data", {}).get("market_state", {}) is falsy (line 279): the
\* stored regime is None.
NoRecordedRegime(trade) == trade.data.market_state = NoneState

\* The test of lines 283-285 with all three fields required to agree.
SimilarRegime_AllFields(trade_market_state, current) ==
  /\ trade_market_state.trend = current.trend
  /\ trade_market_state.volatility = current.volatility
  /\ trade_market_state.momentum = current.momentum

\* The test of lines 283-285.
SimilarRegime(trade_market_state, current) ==
  \/ trade_market_state.trend = current.trend
  \/ trade_market_state.volatility = current.volatility
  \/ trade_market_state.momentum = current.momentum

\* Lines 273-286: the records of the last 30 days that pass the filter.
similar_trades(ledger, clock, current) ==
  SelectSeq(get_recent_trades(ledger, clock, DefaultDays),
            LAMBDA trade :
              /\ HasResult(trade)
              /\ ~NoRecordedRegime(trade)
              /\ SimilarRegime(trade.data.market_state, current))

\* Lines 288-308; enough is FALSE for the text of line 289.
analyze_historical_performance(ledger, clock, current) ==
  LET similar == similar_trades(ledger, clock, current)
      wins(s) == Len(SelectSeq(s, LAMBDA t : Profit(t) > 0))
      rate(s) == IF s = <<>> THEN Zero ELSE Ratio(wins(s), Len(s))
      long_trades == SelectSeq(similar,
                               LAMBDA t : Contains(Direction(t), OpenLong))
      short_trades == SelectSeq(similar,
                                LAMBDA t : Contains(Direction(t), OpenShort))
  IN  IF similar = <<>>
      THEN [enough |-> FALSE, similar |-> <<>>, total_trades |-> 0,
            win_rate |-> Zero, long_trades |-> 0, long_win_rate |-> Zero,
            short_trades |-> 0, short_win_rate |-> Zero]
      ELSE [enough |-> TRUE,
            similar |-> [i \in 1..Len(similar) |-> similar[i].trade_id],
            total_trades |-> Len(similar),
            win_rate |-> rate(similar),
            long_trades |-> Len(long_trades),
            long_win_rate |-> rate(long_trades),
            short_trades |-> Len(short_trades),
            short_win_rate |-> rate(short_trades)]

\* The condition labels read from the regime that line 537 stores.
market_conditions_FromMarketState(trade) == trade.data.market_state

\* Line 159: trade.get("data", {}).get("market_conditions", {}).
market_conditions(trade) == Get(trade.data.obj, "market_conditions", EmptyObj)

TrendMarkets == {"uptrend", "downtrend", "sideways"}

VolatilityMarkets == {"high", "medium", "low"}

\* Lines 155-196: the profits of the records with an outcome by label, and
\* the figures of every label that has profits.
analyze_market_conditions(ledger, clock) ==
  LET recent == get_recent_trades(ledger, clock, DefaultDays)
      closed == SelectSeq(recent, HasResult)
      profits(field, label) ==
        LET of == SelectSeq(closed,
                            LAMBDA t :
                              Get(market_conditions(t), field, "unknown")
                                = label)
        IN  [i \in 1..Len(of) |-> Profit(of[i])]
      figures(ps) ==
        [trades |-> Len(ps),
         win_rate |-> Ratio(Len(SelectSeq(ps, LAMBDA p : p > 0)), Len(ps)),
         avg_profit |-> Ratio(SumSeq(ps), Len(ps))]
      performance(field, labels) ==
        [label \in {l \in labels : profits(field, l) /= <<>>} |->
           figures(profits(field, label))]
  IN  [trend |-> performance("trend", TrendMarkets),
       volatility |-> performance("volatility", VolatilityMarkets)]

\* A ledger of decisions, some with outcomes, on the day of a summary.
InitHistory ==
  /\ now \in HistoryClocks
  /\ trades \in HistoryLedgers(now)
  /\ file = save_history(trades)
  /\ current_trade_id = Len(trades)
  /\ ticks = 0
  /\ conversation_history = <<>>
  /\ market_state = NoneState
  /\ pc = "idle"
  /\ cycles = 0
  /\ cyc = IdleCyc
  /\ ledger_call = InitCall
  /\ em = IdleEm
  /\ mgr = NoCheck
  /\ sched = IdleSched
  /\ fn_call = NoCall

\* suggest_strategy's call on line 200.
AnalyzeHistoricalPerformance ==
  /\ \E current \in CurrentRegimes :
       fn_call' = [fn |-> "analyze_historical_performance",
                   args |-> [market_state |-> current],
                   result |-> analyze_historical_performance(trades, now,
                                                             current)]
  /\ UNCHANGED <<now, ticks, trades, file, conversation_history,
                 market_state, current_trade_id, pc, cycles, cyc,
                 ledger_call, em, mgr, sched>>

\* get_performance_summary's call on line 202.
AnalyzeMarketConditions ==
  /\ fn_call' = [fn |-> "analyze_market_conditions",
                 args |-> <<>>,
                 result |-> analyze_market_conditions(trades, now)]
  /\ UNCHANGED <<now, ticks, trades, file, conversation_history,
                 market_state, current_trade_id, pc, cycles, cyc,
                 ledger_call, em, mgr, sched>>

NextHistory ==
  \/ AnalyzeHistoricalPerformance
  \/ AnalyzeMarketConditions

SpecHistory == InitHistory /\ [][NextHistory]_vars

(***************************************************************************)
(* Execution call by call: LLMTrader.execute_decision (main.py lines       *)
(* 187-241), _open_long_position and _open_short_position (lines 264-404)  *)
(* and PositionManager.close_all_positions (position_manager.py lines      *)
(* 34-61).  A call is recorded with its arguments and with whether it      *)
(* returned (ok) or raised.                                                *)
(***************************************************************************)
\* The calls that may raise in a run, at most MaxFailures of them.
MaxFailures == 2

FailurePoints == {"ticker", "entry", "stop", "take_profit", "cancel", "close"}

FailureSets == {f \in SUBSET FailurePoints : Cardinality(f) <= MaxFailures}

\* What futures_position_information gives get_position_info: nothing when
\* the call raises (read is FALSE, get_position_info returns None), else
\* the signed size of the position.
ExchangePositions ==
  {[read |-> FALSE, size |-> 0], [read |-> TRUE, size |-> 0],
   [read |-> TRUE, size |-> 2], [read |-> TRUE, size |-> -2]}

\* The quantity execute_decision computes from the decision (lines 213-230).
OrderQuantity == 1

\* A call that reads the exchange.
ReadCall(api) ==
  [api |-> api, side |-> "", type |-> "", quantity |-> 0,
   closePosition |-> FALSE, ok |-> TRUE]

\* client.futures_cancel_all_open_orders(symbol=...)
CancelCall(ok) ==
  [api |-> "futures_cancel_all_open_orders", side |-> "", type |-> "",
   quantity |-> 0, closePosition |-> FALSE, ok |-> ok]

\* client.futures_create_order(side=..., type=..., ...)
OrderCall(side, type, quantity, closePosition, ok) ==
  [api |-> "futures_create_order", side |-> side, type |-> type,
   quantity |-> quantity, closePosition |-> closePosition, ok |-> ok]

Opposite(side) == IF side = "BUY" THEN "SELL" ELSE "BUY"

\* close_all_positions that goes on to the close order when the cancel
\* call raised.
close_all_positions_IgnoreCancelFailure(position, fails) ==
  LET read == <<ReadCall("futures_position_information")>>
      order == OrderCall(IF position.size > 0 THEN "SELL" ELSE "BUY",
                         "MARKET", Abs(position.size), FALSE,
                         "close" \notin fails)
  IN  IF ~position.read \/ position.size = 0
      THEN [calls |-> read, returned |-> TRUE]
      ELSE [calls |-> read \o <<CancelCall("cancel" \notin fails), order>>,
            returned |-> "close" \notin fails]

\* close_all_positions (lines 34-61): True for no position, the cancel call,
\* then the market order against the position; False when a call raised.
close_all_positions(position, fails) ==
  LET read == <<ReadCall("futures_position_information")>>
      order == OrderCall(IF position.size > 0 THEN "SELL" ELSE "BUY",
                         "MARKET", Abs(position.size), FALSE,
                         "close" \notin fails)
  IN  IF ~position.read \/ position.size = 0
      THEN [calls |-> read, returned |-> TRUE]
      ELSE IF "cancel" \in fails
      THEN [calls |-> read \o <<CancelCall(FALSE)>>, returned |-> FALSE]
      ELSE [calls |-> read \o <<CancelCall(TRUE), order>>,
            returned |-> "close" \notin fails]

\* The protective orders under one try: the take-profit order is not
\* reached when the stop-loss order raised.
ProtectiveCalls_OneTry(entry, stop_loss, take_profit, fails) ==
  LET stop == IF IsPositiveNumber(stop_loss)
              THEN <<OrderCall(Opposite(entry), "STOP_MARKET", 0, TRUE,
                               "stop" \notin fails)>>
              ELSE <<>>
      take == IF IsPositiveNumber(take_profit)
              THEN <<OrderCall(Opposite(entry), "TAKE_PROFIT_MARKET", 0, TRUE,
                               "take_profit" \notin fails)>>
              ELSE <<>>
  IN  IF stop /= <<>> /\ "stop" \in fails THEN stop ELSE stop \o take

\* Lines 300-329 (371-400): the stop-loss order and the take-profit order,
\* each under its own try, on the side against the entry, with
\* closePosition=True and no quantity.
ProtectiveCalls(entry, stop_loss, take_profit, fails) ==
  (IF IsPositiveNumber(stop_loss)
   THEN <<OrderCall(Opposite(entry), "STOP_MARKET", 0, TRUE,
                    "stop" \notin fails)>>
   ELSE <<>>)
  \o (IF IsPositiveNumber(take_profit)
      THEN <<OrderCall(Opposite(entry), "TAKE_PROFIT_MARKET", 0, TRUE,
                       "take_profit" \notin fails)>>
      ELSE <<>>)

\* _open_long_position (entry BUY) and _open_short_position (entry SELL):
\* the ticker read, the entry order at market or at a limit and, when both
\* returned, the protective orders.
open_position(entry, price, quantity, stop_loss, take_profit, fails) ==
  LET ticker == [ReadCall("futures_symbol_ticker") EXCEPT
                   !.ok = "ticker" \notin fails]
      order == OrderCall(entry,
                         IF IsMarketPrice(price) THEN "MARKET" ELSE "LIMIT",
                         quantity, FALSE, "entry" \notin fails)
  IN  IF "ticker" \in fails THEN <<ticker>>
      ELSE IF "entry" \in fails THEN <<ticker, order>>
      ELSE <<ticker, order>>
           \o ProtectiveCalls(entry, stop_loss, take_profit, fails)

\* execute_decision with the quantity worked out ahead of the test for the
\* hold action.
execute_decision_QuantityFirst(decision, position, fails) ==
  LET action == Get(decision, "action", Hold)
      quantity == Get(decision, "quantity", <<"0">>)
      reads == [i \in 1..Len(QuantityCalls(quantity)) |->
                  ReadCall(QuantityCalls(quantity)[i])]
  IN  reads
      \o (IF action = OpenLong
          THEN open_position("BUY", Get(decision, "price", <<"market">>),
                             OrderQuantity,
                             Get(decision, "stop_loss", <<"0">>),
                             Get(decision, "take_profit", <<"0">>), fails)
          ELSE IF action = OpenShort
          THEN open_position("SELL", Get(decision, "price", <<"market">>),
                             OrderQuantity,
                             Get(decision, "stop_loss", <<"0">>),
                             Get(decision, "take_profit", <<"0">>), fails)
          ELSE IF action = ClosePosition
          THEN close_all_positions(position, fails).calls
          ELSE <<>>)

\* execute_decision (lines 187-241): nothing for the hold action; else the
\* reads that turn the quantity into a number, then the open-long, the
\* open-short or the close branch, or none of them.
execute_decision(decision, position, fails) ==
  LET action == Get(decision, "action", Hold)
      quantity == Get(decision, "quantity", <<"0">>)
      reads == [i \in 1..Len(QuantityCalls(quantity)) |->
                  ReadCall(QuantityCalls(quantity)[i])]
  IN  IF action = Hold THEN <<>>
      ELSE reads
           \o (IF action = OpenLong
               THEN open_position("BUY",
                                  Get(decision, "price", <<"market">>),
                                  OrderQuantity,
                                  Get(decision, "stop_loss", <<"0">>),
                                  Get(decision, "take_profit", <<"0">>),
                                  fails)
               ELSE IF action = OpenShort
               THEN open_position("SELL",
                                  Get(decision, "price", <<"market">>),
                                  OrderQuantity,
                                  Get(decision, "stop_loss", <<"0">>),
                                  Get(decision, "take_profit", <<"0">>),
                                  fails)
               ELSE IF action = ClosePosition
               THEN close_all_positions(position, fails).calls
               ELSE <<>>)

\* Decisions handed to execute_decision: the five actions of the prompt and
\* an action outside it, at market or at a limit, with and without a stop
\* loss and a take profit; and the object without an action.
ExecutionDecisions ==
  {[FullDecision(a) EXCEPT !["price"] = p, !["stop_loss"] = s,
                           !["take_profit"] = t] :
      a \in {OpenLong, OpenShort, ClosePosition, Hold, KeepAndHold,
             <<"jia", "cang">>},
      p \in {<<"market">>, <<"1">>},
      s \in {<<"0">>, <<"1">>},
      t \in {<<"0">>, <<"1">>}}
  \cup {EmptyObj}

\* A decision, the position the exchange holds and the calls that will
\* raise, before execute_decision or close_all_positions is called.
InitExecute ==
  /\ fn_call \in {[fn |-> "none",
                   args |-> [decision |-> decision, position |-> position,
                             fails |-> fails],
                   result |-> [calls |-> <<>>, returned |-> TRUE]] :
                    decision \in ExecutionDecisions,
                    position \in ExchangePositions,
                    fails \in FailureSets}
  /\ now = 0
  /\ ticks = 0
  /\ file = [state |-> "absent", trades |-> <<>>]
  /\ trades = load_history(file)
  /\ conversation_history = <<>>
  /\ market_state = NoneState
  /\ current_trade_id = 0
  /\ pc = "idle"
  /\ cycles = 0
  /\ cyc = IdleCyc
  /\ ledger_call = InitCall
  /\ em = IdleEm
  /\ mgr = NoCheck
  /\ sched = IdleSched

\* main.py line 134.
ExecuteDecisionCall ==
  /\ fn_call' = [fn_call EXCEPT
                   !.fn = "execute_decision",
                   !.result = [calls |-> execute_decision(
                                           fn_call.args.decision,
                                           fn_call.args.position,
                                           fn_call.args.fails),
                               returned |-> TRUE]]
  /\ UNCHANGED <<now, ticks, trades, file, conversation_history,
                 market_state, current_trade_id, pc, cycles, cyc,
                 ledger_call, em, mgr, sched>>

\* main.py line 172: the emergency job's call.
CloseAllPositions ==
  /\ fn_call' = [fn_call EXCEPT
                   !.fn = "close_all_positions",
                   !.result = close_all_positions(fn_call.args.position,
                                                  fn_call.args.fails)]
  /\ UNCHANGED <<now, ticks, trades, file, conversation_history,
                 market_state, current_trade_id, pc, cycles, cyc,
                 ledger_call, em, mgr, sched>>

NextExecute ==
  \/ ExecuteDecisionCall
  \/ CloseAllPositions

SpecExecute == InitExecute /\ [][NextExecute]_vars

(***************************************************************************)
(* Properties.                                                             *)
(***************************************************************************)
\* The stage whose reasoning call raised, by the role that was called.
FailedRole ==
  [analysis |-> "analyst", strategy |-> "strategist",
   validation |-> "validator", risk |-> "risk", debate |-> "debate",
   decision |-> "decision"]

ReasoningFailures == DOMAIN FailedRole

ParseFailed == cyc.parse \in {"json_error", "type_error"}

Roles == [i \in 1..Len(cyc.calls) |-> cyc.calls[i].role]

IsHoldDefault(obj) ==
  /\ Get(obj, "action", <<>>) = Hold
  /\ Get(obj, "quantity", <<>>) = <<"0">>
  /\ Get(obj, "confidence", <<>>) = <<"0">>

\* C1: a job cycle that fetched the 500 bars and the position, and in which
\* no reasoning call failed or returned an unparseable decision, ends after
\* the FinalDecision call with exactly one new record in the ledger.
C1_CycleAppendsOneRecord ==
  (/\ pc = "done"
   /\ cyc.driver = "job"
   /\ cyc.failed /= "market_data"
   /\ cyc.nbars = KlineLimit
   /\ cyc.position /= "None"
   /\ cyc.failed \notin ReasoningFailures
   /\ ~ParseFailed)
  => (/\ "decision" \in Range(Roles)
      /\ cyc.result.made
      /\ Len(trades) = cyc.ledger_before + 1)

\* C2: a cycle in which the reasoning call of a stage failed ends with the
\* safe-default decision (action hold, quantity 0, confidence 0).
C2_StageFailureYieldsSafeDefault ==
  (pc = "done" /\ cyc.failed \in ReasoningFailures)
  => (cyc.result.made /\ IsHoldDefault(cyc.result.obj))

\* C3: in a cycle in which a stage failed no order is placed or cancelled
\* and no position closed; after a failed call no later stage runs and
\* execute_decision is not reached; after an unparseable decision
\* execute_decision receives the hold decision only.
C3_NoOrdersInFailedCycle ==
  /\ (cyc.failed /= "none" \/ ParseFailed)
       => \A i \in 1..Len(cyc.exchange) : cyc.exchange[i] \notin MutatingCalls
  /\ cyc.failed /= "none"
       => /\ pc = "done"
          /\ ~cyc.result.made
          /\ cyc.exchange = <<>>
  /\ cyc.failed \in ReasoningFailures
       => /\ cyc.calls /= <<>>
          /\ Roles[Len(Roles)] = FailedRole[cyc.failed]
  /\ ParseFailed => Get(cyc.result.obj, "action", <<>>) = Hold

\* A cycle whose reconciler call failed after three completed stages has
\* ended.
C3_Witness ==
  /\ pc = "done"
  /\ cyc.failed = "debate"
  /\ Roles = <<"strategist", "validator", "risk", "debate">>

\* The response holds no JSON object for json.loads: the text handed to it
\* is not the lone payload, or the payload is not an object.
Unparseable(response) ==
  response.json_text /= <<"J">> \/ response.kind /= "object"

NumDecisionCalls(c) ==
  Cardinality({i \in 1..Len(c.calls) : c.calls[i].role = "decision"})

\* C4: when the FinalDecision response cannot be parsed, make_final_decision
\* returns the safe default with trade_id None after its one reasoning
\* call, and leaves the ledger, the persisted file, the conversation
\* history and current_trade_id as they were.
C4_ParseFailureIsSafeAndSilent ==
  [][(pc = "final" /\ pc' = "execute" /\ Unparseable(cyc'.response))
       => (/\ cyc'.result.made
           /\ IsHoldDefault(cyc'.result.obj)
           /\ cyc'.result.trade_id = 0
           /\ NumDecisionCalls(cyc') = 1
           /\ trades' = trades
           /\ file' = file
           /\ current_trade_id' = current_trade_id
           /\ conversation_history' = conversation_history)]_vars

\* A response whose payload is a JSON array has been answered by the safe
\* default.
C4_Witness ==
  /\ pc = "execute"
  /\ cyc.response.json_text = <<"J">>
  /\ cyc.response.kind = "array"
  /\ cyc.result.trade_id = 0

\* C5: a decision that make_final_decision returns with a trade id, so one
\* that is recorded and executed, has all seven keys.
C5_RecordedDecisionHasSevenKeys ==
  (cyc.result.made /\ cyc.result.trade_id /= 0)
  => DOMAIN cyc.result.obj = DecisionKeys

\* C6: a make_final_decision call whose response parses to a decision
\* grows the ledger by exactly one record, keeps the earlier records, and
\* returns the id of the new record, which no earlier record has.
C6_OneRecordFreshId ==
  (pc \in {"execute", "done"} /\ cyc.result.made
   /\ ~Unparseable(cyc.response))
  => (/\ Len(trades) = cyc.ledger_before + 1
      /\ cyc.result.trade_id = trades[Len(trades)].trade_id
      /\ current_trade_id = cyc.result.trade_id
      /\ \A i \in 1..(Len(trades) - 1) :
           trades[i].trade_id /= cyc.result.trade_id)

\* The second recorded decision of a run has got its id.
C6_Witness ==
  /\ pc = "execute"
  /\ ~Unparseable(cyc.response)
  /\ Len(trades) = 2
  /\ cyc.result.trade_id = trades[2].trade_id

\* What an assessment recommends, read off its words.
RecommendsRejectOrAdjust(text) ==
  "bu" \in Range(text) \/ "tiaozheng_hou_zhixing" \in Range(text)

ApprovesOutright(text) == text /= <<>> /\ Range(text) = {"jianyi_zhixing"}

\* C7: the reconciler is called only for an assessment that recommends
\* rejection or adjustment; for an assessment that approves outright no
\* reconciler call is made, the debated strategy is the validated strategy
\* and was_debated is false.
C7_DebateOnlyOnObjection ==
  (pc \in {"final", "execute", "done"} /\ cyc.failed \in {"none", "debate"}
   /\ "risk" \in Range(Roles))
  => (/\ "debate" \in Range(Roles)
           => RecommendsRejectOrAdjust(cyc.risk_assessment)
      /\ ApprovesOutright(cyc.risk_assessment)
           => (/\ "debate" \notin Range(Roles)
               /\ cyc.debated_strategy = cyc.strategy
               /\ ~cyc.was_debated))

\* An approved, corrected strategy has passed reconciliation unchanged.
C7_Witness ==
  /\ pc = "final"
  /\ ApprovesOutright(cyc.risk_assessment)
  /\ cyc.strategy = "corrected"
  /\ cyc.debated_strategy = "corrected"
  /\ ~cyc.was_debated

\* C8: once the validator has corrected the strategy, every later stage
\* (risk, reconciler, decision maker) gets the corrected text in its prompt
\* and not the strategist's original.
C8_DownstreamGetsCorrected ==
  cyc.strategy = "corrected"
  => \A i \in 1..Len(cyc.calls) :
       cyc.calls[i].role \in {"risk", "debate", "decision"}
       => (/\ "corrected" \in cyc.calls[i].texts
           /\ "strategy" \notin cyc.calls[i].texts)

Rank(role) ==
  CASE role = "analyst" -> 1
    [] role = "strategist" -> 2
    [] role = "validator" -> 3
    [] role = "risk" -> 4
    [] role = "debate" -> 5
    [] OTHER -> 6

\* The stages every cycle must have completed before a later stage starts.
Mandatory ==
  {"strategist", "validator", "risk"}
  \cup (IF cyc.driver = "job" THEN {"analyst"} ELSE {})

\* C9: the reasoning calls of a cycle are made in the order analyst,
\* strategist, validator, risk, reconciler, decision maker, each role at
\* most once, and a call is made only after the calls of all earlier
\* mandatory stages; execute_decision runs only after the decision call.
C9_StagesInOrderOnce ==
  /\ \A i, j \in 1..Len(Roles) : i < j => Rank(Roles[i]) < Rank(Roles[j])
  /\ \A i \in 1..Len(Roles) : \A m \in Mandatory :
       Rank(m) < Rank(Roles[i]) => \E k \in 1..(i - 1) : Roles[k] = m
  /\ pc = "execute" => Roles[Len(Roles)] = "decision"

\* A cycle has made all its calls, the reconciler's among them.
C9_Witness ==
  /\ pc = "execute"
  /\ Roles = <<"strategist", "validator", "risk", "debate", "decision">>

\* C10: appending a record without an outcome changes neither total_trades
\* nor win_rate, and a ledger of outcome-less records only has
\* total_trades 0 and win_rate 0.
C10_OutcomeLessNeverCounts ==
  LET before == calculate_performance_metrics(trades, now, DefaultDays)
  IN  /\ \A trade_data \in LedgerData :
           LET after == calculate_performance_metrics(
                          add_trade(trades, trade_data, now), now,
                          DefaultDays)
           IN  /\ after.total_trades = before.total_trades
               /\ after.win_rate = before.win_rate
      /\ (\A i \in 1..Len(trades) : ~HasResult(trades[i]))
           => (before.total_trades = 0 /\ before.win_rate = Zero)

\* The metrics of the ledger over the default window, and that window.
Metrics == calculate_performance_metrics(trades, now, DefaultDays)

Window == get_recent_trades(trades, now, DefaultDays)

NoLossInWindow ==
  \A i \in 1..Len(Window) : HasResult(Window[i]) => Profit(Window[i]) >= 0

\* C11: for every ledger the profit_factor of calculate_performance_metrics
\* is a quotient with a positive denominator (no division by zero), is not
\* negative, and is 0 whenever no record of the window has a negative
\* profit.
C11_ProfitFactorNonNegative ==
  /\ Metrics.profit_factor[2] > 0
  /\ Metrics.profit_factor[1] >= 0
  /\ NoLossInWindow => Metrics.profit_factor = Zero

\* The window holds a winning record and no losing one.
C11_Witness ==
  /\ NoLossInWindow
  /\ \E i \in 1..Len(Window) : HasResult(Window[i]) /\ Profit(Window[i]) > 0
  /\ Metrics.profit_factor = Zero

\* What a record is apart from its outcome.
Identity(t) ==
  [trade_id |-> t.trade_id, timestamp |-> t.timestamp, data |-> t.data]

\* C12: update_trade_result returns False and leaves the ledger and the
\* file as they were when no record has the id (or the id is None); when a
\* record has it, it returns True, sets result and updated_at of the first
\* such record and changes nothing else in the ledger.
C12_UpdateTouchesOneRecord ==
  [][UpdateTradeResult
       => LET id == ledger_call'.trade_id
              i == FindTrade(trades, id)
          IN  IF id = 0 \/ i = 0
              THEN /\ ledger_call'.returned = FALSE
                   /\ trades' = trades
                   /\ file' = file
              ELSE /\ ledger_call'.returned = TRUE
                   /\ Len(trades') = Len(trades)
                   /\ \A j \in 1..Len(trades) :
                        /\ Identity(trades'[j]) = Identity(trades[j])
                        /\ j /= i => trades'[j] = trades[j]
                   /\ trades'[i].result /= <<>>
                   /\ trades'[i].updated_at = <<now>>]_vars

\* The second of two records has got an outcome, the first has none.
C12_Witness ==
  /\ ledger_call.op = "update_trade_result"
  /\ ledger_call.returned = TRUE
  /\ ledger_call.trade_id = 2
  /\ Len(trades) = 2
  /\ ~HasResult(trades[1])
  /\ HasResult(trades[2])

IdsIncreasing ==
  \A i, j \in 1..Len(trades) :
    i < j => trades[i].trade_id < trades[j].trade_id

\* C13: the trade ids of the ledger are strictly increasing in list order
\* (hence pairwise distinct) in every state, from the empty ledger and from
\* a reloaded one, and add_trade and update_trade_result keep every record
\* at its place.
C13_IdsIncreasingAppendOnly ==
  /\ []IdsIncreasing
  /\ [][ledger_call'.op /= "init"
          => /\ Len(trades') >= Len(trades)
             /\ \A i \in 1..Len(trades) :
                  Identity(trades'[i]) = Identity(trades[i])]_vars

\* The first of two records has been given an outcome.
C13_Witness ==
  /\ ledger_call.op = "update_trade_result"
  /\ Len(trades) = 2
  /\ HasResult(trades[1])
  /\ trades[1].trade_id = 1
  /\ trades[2].trade_id = 2

\* C14: after add_trade and after a successful update_trade_result the
\* file holds the in-memory list: a TradeHistory constructed on it loads
\* the same records.
C14_FileHoldsLedger ==
  (\/ ledger_call.op = "add_trade"
   \/ (ledger_call.op = "update_trade_result" /\ ledger_call.returned))
  => (file.state = "written" /\ load_history(file) = trades)

\* C15: constructing TradeHistory on an unreadable file does not raise and
\* gives the empty ledger, on which the metrics are the empty metrics and
\* add_trade appends the record with id 1.
C15_UnreadableFileIsEmptyLedger ==
  (ledger_call.op = "init" /\ file.state = "corrupt")
  => (/\ ledger_call.returned
      /\ trades = <<>>
      /\ Metrics.total_trades = 0
      /\ \A trade_data \in LedgerData :
           LET l == add_trade(trades, trade_data, now)
           IN  /\ Len(l) = 1
               /\ l[1].trade_id = 1
               /\ l[1].data = trade_data)

\* The process has been started on an unreadable file.
C15_Witness ==
  /\ ledger_call.op = "init"
  /\ file.state = "corrupt"
  /\ trades = <<>>

\* The values classify_market can put into a classification (lines 76-90,
\* 97-102, 121-130).
Trends ==
  {"uptrend", "strong_uptrend", "downtrend", "strong_downtrend", "sideways",
   "pullback", "correction", "mixed"}

Volatilities == {"low", "medium", "high"}

Momenta == {"overbought", "oversold", "strong", "weak", "neutral"}

Classified == cyc.driver = "classifier"

\* C16: for a missing series and for every series shorter than 50 bars
\* classify_market does not raise and returns the classification whose
\* trend, volatility and momentum are all unknown.
C16_ShortSeriesIsUnknown ==
  (Classified /\ (cyc.nbars = NoSeries \/ cyc.nbars < TrendLookbackLong))
  => (/\ cyc.failed = "none"
      /\ market_state.trend = "unknown"
      /\ market_state.volatility = "unknown"
      /\ market_state.momentum = "unknown")

\* A series of 49 bars has been classified.
C16_Witness ==
  /\ Classified
  /\ cyc.nbars = TrendLookbackLong - 1
  /\ cyc.failed = "none"
  /\ market_state = UnknownState

\* C17: for every series of at least 50 bars classify_market returns a
\* classification with one trend, one volatility and one momentum value of
\* the lists of the classifier.
C17_LongSeriesIsClassified ==
  (Classified /\ cyc.nbars /= NoSeries /\ cyc.nbars >= TrendLookbackLong)
  => (/\ cyc.failed = "none"
      /\ market_state.trend \in Trends
      /\ market_state.volatility \in Volatilities
      /\ market_state.momentum \in Momenta)


\* The triggers and the score of the last check_emergency call, as the
\* monitor computes them from its inputs.
AnyTrigger ==
  \/ mgr.volatility_emergency
  \/ mgr.volume_emergency
  \/ mgr.price_emergency
  \/ check_position_risk(mgr.position, mgr.pnl_percentage)

\* C18: EmergencyManager.check_emergency, with its market data fetched,
\* reports an emergency exactly when one of the four triggers is true or
\* the risk score is above 0.8; an open position 20 percent under water is
\* an emergency with the other triggers false and a score of 0.
C18_MonitorFiresOnAnyTrigger ==
  (mgr.made /\ mgr.nbars /= NoSeries)
    => (mgr.is_emergency <=> (AnyTrigger \/ mgr.risk_score > RiskCutoff))

\* The reasoning calls of the running emergency job.
EmergencyCalls == Len(em.calls)

\* The running emergency job has placed, cancelled or closed something.
EmergencyMutates == \E i \in 1..Len(em.exchange) : em.exchange[i] \in MutatingCalls

\* C19: an emergency_check_job run that read a position which is None (not
\* fetched) or of size 0 makes no reasoning call, reports no emergency and
\* makes no exchange call that changes the position.
C19_FlatPositionNoCheck ==
  (em.phase /= "idle" /\ em.position \in {"None", "flat"})
    => /\ EmergencyCalls = 0
       /\ ~em.fired
       /\ ~Truthy(em.result["is_emergency"])
       /\ ~em.close_invoked
       /\ ~EmergencyMutates

\* A job run has fetched the 500 bars, read a position of size 0 and
\* ended.
C19_Witness ==
  /\ em.phase = "done" /\ em.driver = "job" /\ em.failed = "none"
  /\ em.position = "flat" /\ em.nbars = KlineLimit

\* The roles of the pipeline stages.
StageRoles == {FailedRole[k] : k \in DOMAIN FailedRole}

\* C20: a job run whose check answered an emergency with the action ping
\* cang has invoked close_all_positions by the time it ends, with no call
\* of a pipeline stage and no pipeline cycle started; a run with any other
\* answer has made no exchange call that changes the position.
C20_CloseActionClosesAtOnce ==
  /\ em.phase = "done" /\ em.failed = "none" /\ em.position \notin {"unread"}
       => IF Truthy(em.result["is_emergency"])
             /\ Get(em.result, "action", <<"None">>) = ClosePosition
          THEN /\ em.close_invoked
               /\ Len(em.exchange) >= 1
               /\ em.exchange[1] = "futures_position_information"
               /\ \A i \in 1..Len(em.calls) : em.calls[i].role \notin StageRoles
               /\ pc = "idle" /\ cycles = 0
          ELSE ~em.close_invoked /\ ~EmergencyMutates
  /\ em.phase /= "done" => ~em.close_invoked /\ ~EmergencyMutates

\* An emergency with the action ping cang on a short position: the open
\* orders are cancelled and the position is bought back.
C20_Witness ==
  /\ em.phase = "done"
  /\ em.fired /\ em.close_invoked
  /\ em.result["action"] = ClosePosition
  /\ em.exchange = <<"futures_position_information",
                     "futures_cancel_all_open_orders", "order_market_buy">>


\* The last call was get_position_risk on a position that is open.
RiskOfOpenPosition ==
  /\ fn_call.fn = "get_position_risk"
  /\ fn_call.args.fetched /\ fn_call.args.size /= 0

\* C21: the risk level of an open position is the first match of:
\* liquidation distance <= 5% extreme, <= 10% high, PnL% < -10 medium,
\* PnL% < -5 low, else safe, the distance being |mark - liquidation| / mark
\* in percent and the PnL% the profit over |size * entry| in percent.
C21_RiskLevelByFirstMatch ==
  RiskOfOpenPosition =>
    LET a == fn_call.args
        distance100 == Abs(a.mark_price - a.liquidation_price) * 100
        pnl100 == a.unrealized_pnl * 100
        value == Abs(a.size * a.entry_price)
    IN  fn_call.result.risk_level =
          IF distance100 <= 5 * a.mark_price THEN "extreme"
          ELSE IF distance100 <= 10 * a.mark_price THEN "high"
          ELSE IF pnl100 < -10 * value THEN "medium"
          ELSE IF pnl100 < -5 * value THEN "low"
          ELSE "safe"

\* The example of the claim with a loss of 20%: size 1, entry 100, mark 90,
\* liquidation 85 is high.
C21_Witness ==
  /\ RiskOfOpenPosition
  /\ fn_call.args = [fetched |-> TRUE, size |-> 1, entry_price |-> 100,
                     mark_price |-> 90, liquidation_price |-> 85,
                     unrealized_pnl |-> -20]
  /\ fn_call.result.risk_level = "high"


\* A run of the job is in flight.
InFlight(job) == job \in JobsInFlight

\* The blocking call a run in flight is waiting for, "none" between calls.
CallInFlight(r) == IF r.phase = "call" THEN Plan(r.job)[r.at] ELSE "none"

\* C22: an emergency check that falls due while a pipeline cycle is in
\* flight can start at once: the scheduler does not wait for the end of
\* the pipeline cycle.
C22_EmergencyStartsDuringCycle ==
  (/\ sched.alive
   /\ InFlight("strategy")
   /\ Due("emergency")
   /\ ~InFlight("emergency"))
  => ENABLED (RunPending \/ JobStart)

\* C23: no two runs of the same job are in flight together, and every run
\* started at least one interval after the run of its job before it had
\* ended: a tick that fell due during that run caused no run of its own.
C23_OneCycleNoCatchUp ==
  /\ \A i, k \in 1..Len(sched.runs) :
        i /= k => sched.runs[i].job /= sched.runs[k].job
  /\ \A i \in 1..Len(sched.runs) :
        LET r == sched.runs[i]
        IN  r.started >= sched.last_end[r.job] + Interval(r.job)

\* An emergency check ran so long that a tick of its own fell due, and the
\* check after it is in flight.
C23_Witness ==
  /\ sched.dropped["emergency"] >= 1
  /\ InFlight("emergency")

\* C24: at most one exchange call that changes the position is in flight,
\* over the runs of both jobs.
C24_OneMutatingCallInFlight ==
  Cardinality({i \in 1..Len(sched.runs) :
                 CallInFlight(sched.runs[i]) = "exchange"}) <= 1

\* The emergency check is closing the position while the pipeline cycle is
\* due.
C24_Witness ==
  /\ \E i \in 1..Len(sched.runs) :
        /\ sched.runs[i].job = "emergency"
        /\ CallInFlight(sched.runs[i]) = "exchange"
  /\ Due("strategy")

\* C25: a reasoning call in flight always comes to an end, by an answer,
\* an error or a timeout, so the cycle that made it ends.
C25_BlockedCallIsAbandoned ==
  \A i \in 1..Len(sched.runs) :
     CallInFlight(sched.runs[i]) = "reasoning" => ENABLED CallReturns


\* C27: whatever fails in a run of strategy_update_job or of
\* emergency_check_job (data fetch, reasoning call, parsing, ledger write,
\* exchange call), the scheduler thread lives on and the job that failed
\* is due again one interval after its return.
C27_FailuresStayInTheJob ==
  /\ sched.alive
  /\ \A j \in {"strategy", "emergency"} :
        (sched.last_failed[j] /= "none" /\ ~InFlight(j))
          => sched.next_run[j] = sched.last_end[j] + Interval(j)

\* An emergency check ended on a reasoning call that raised, and the next
\* emergency check is in flight.
C27_Witness ==
  /\ sched.last_failed["emergency"] = "reasoning"
  /\ InFlight("emergency")


\* The cycle is skipped: no reasoning call, no decision, no new ledger
\* record and no exchange call.
CycleSkipped ==
  /\ cyc.calls = <<>>
  /\ ~cyc.result.made
  /\ Len(trades) = cyc.ledger_before
  /\ cyc.exchange = <<>>

DecisionWindow == Last(conversation_history, HistoryWindow)

\* C29: every exchange of the rolling context handed to FinalDecision was
\* produced by a stage of the pipeline cycle that is running.
C29_ContextIsOfThisCycle ==
  pc = "final"
    => \A i \in 1..Len(DecisionWindow) :
          /\ DecisionWindow[i].cycle = cycles
          /\ DecisionWindow[i].role /= "emergency"


\* The exchange calls of the running cycle that change the position.
MutatingOfCycle ==
  {i \in 1..Len(cyc.exchange) : cyc.exchange[i] \in MutatingCalls}

\* The ledger holds the record of the decision of the running cycle.
DecisionRecorded ==
  /\ cyc.result.made
  /\ FindTrade(trades, cyc.result.trade_id) /= 0
  /\ trades[FindTrade(trades, cyc.result.trade_id)].data.obj = cyc.result.obj

\* C28: when execute_decision is entered no exchange call has been made
\* for the decision; a cycle that has made exchange calls has its decision
\* in the ledger, also when an order was rejected, and has made none of its
\* position-changing calls twice.
C28_RecordedBeforeExecuted ==
  /\ pc = "execute" => cyc.exchange = <<>>
  /\ cyc.exchange /= <<>>
       => /\ DecisionRecorded
          /\ Len(trades) = cyc.ledger_before + 1
          /\ \A i, k \in MutatingOfCycle :
                i /= k => cyc.exchange[i] /= cyc.exchange[k]

\* A decision to open long with a stop: the entry order was rejected, so no
\* stop order followed; the record is in the ledger.
C28_Witness ==
  /\ pc = "done"
  /\ DecisionRecorded
  /\ Get(cyc.result.obj, "action", Hold) = OpenLong
  /\ IsPositiveNumber(Get(cyc.result.obj, "stop_loss", <<"0">>))
  /\ MutatingOfCycle /= {}
  /\ \A i \in MutatingOfCycle : cyc.exchange[i] = "order_market_buy"


\* The last call was _identify_trend with a medium-term change whose
\* absolute value is below half the trend threshold (1.5%).
MediumNearZero ==
  /\ fn_call.fn = "identify_trend"
  /\ fn_call.args.medium_change[1] * 200 < 3 * fn_call.args.medium_change[2]
  /\ -(fn_call.args.medium_change[1] * 200) < 3 * fn_call.args.medium_change[2]

\* The short-term change is beyond the 3% threshold on the side of the
\* medium-term change.
ShortBreaksOut ==
  LET short == fn_call.args.short_change
      medium == fn_call.args.medium_change
  IN  \/ short[1] * 100 > 3 * short[2] /\ medium[1] > 0
      \/ short[1] * 100 < -3 * short[2] /\ medium[1] < 0

\* C30 as stated: a medium-term change near zero is classified sideways
\* for every short-term and long-term change.
C30_NearZeroIsSideways == MediumNearZero => fn_call.result = "sideways"

\* C30 as amended: a medium-term change near zero is classified sideways
\* unless the short-term change is beyond the 3% threshold on the side of
\* the medium-term change.
C30_NearZeroIsSidewaysUnlessBreakout ==
  (MediumNearZero /\ ~ShortBreaksOut) => fn_call.result = "sideways"

\* All three changes are above zero, the medium-term one near zero and the
\* short-term one below the threshold: sideways, not strong_uptrend.
C30_Witness ==
  /\ MediumNearZero /\ ~ShortBreaksOut
  /\ fn_call.args.short_change[1] > 0
  /\ fn_call.args.medium_change[1] > 0
  /\ fn_call.args.long_change[1] > 0
  /\ fn_call.result = "sideways"

\* A bar of the series that is strictly beyond (below for sign 1, above for
\* sign -1) the two bars before it and the two bars after it.
LocalExtremeBars(prices, sign) ==
  {k \in 3..(Len(prices) - 2) :
     \A j \in {k - 2, k - 1, k + 1, k + 2} :
        sign * prices[k] < sign * prices[j]}

\* C31: every support (resistance) candidate of
\* _identify_support_resistance is the low (high) of a bar strictly below
\* (above) the two bars before it and the two bars after it; the last bar
\* and the last bar but one, which have fewer than two following bars, are
\* never candidates.
C31_CandidatesAreLocalExtremes ==
  fn_call.fn = "identify_support_resistance" =>
    /\ \A p \in Range(fn_call.result.support_levels) :
         \E k \in LocalExtremeBars(fn_call.args.low_prices, 1) :
            fn_call.args.low_prices[k] = p
    /\ \A p \in Range(fn_call.result.resistance_levels) :
         \E k \in LocalExtremeBars(fn_call.args.high_prices, -1) :
            fn_call.args.high_prices[k] = p

\* C32: prepare_market_context raises, returning no field, for every series
\* shorter than its longest lookback of 1440 bars, and returns all six
\* fields for every series of 1440 bars or more.
C32_ShortSeriesFailsExplicitly ==
  fn_call.fn = "prepare_market_context" =>
    IF fn_call.args.nbars < 1440
    THEN fn_call.result.raised /\ fn_call.result.context = {}
    ELSE /\ ~fn_call.result.raised
         /\ fn_call.result.context =
              {"current_price", "price_change_1h", "price_change_24h",
               "volume_change", "volatility_1h", "volatility_24h"}

\* A series of one bar short of the longest lookback, long enough for the
\* one-hour lookback, has been summarised.
C32_Witness ==
  /\ fn_call.fn = "prepare_market_context"
  /\ fn_call.args.nbars = 1439
  /\ fn_call.result.raised

\* The record has an outcome and a recorded regime, and its trend, its
\* volatility or its momentum is that of the current regime.
SharesRegimeValue(trade, current) ==
  /\ trade.result /= <<>>
  /\ trade.data.market_state /= NoneState
  /\ \E field \in {"trend", "volatility", "momentum"} :
        trade.data.market_state[field] = current[field]

CountedSimilar(trade) == trade.trade_id \in Range(fn_call.result.similar)

\* C33 as stated: in _analyze_historical_performance a record of the ledger
\* is counted as similar exactly when it has an outcome and a recorded
\* regime of which the trend, the volatility or the momentum equals the
\* current regime's.
C33_SimilarIffSharesValue ==
  fn_call.fn = "analyze_historical_performance" =>
    \A i \in 1..Len(trades) :
       CountedSimilar(trades[i])
         <=> SharesRegimeValue(trades[i], fn_call.args.market_state)

\* C33 amended: a record is counted as similar exactly when it was recorded
\* within the last 30 days, has an outcome and a recorded regime, and its
\* trend, volatility or momentum equals the current regime's; a record with
\* no outcome or no recorded regime is never counted.
C33_RecentSimilarIffSharesValue ==
  fn_call.fn = "analyze_historical_performance" =>
    \A i \in 1..Len(trades) :
       /\ CountedSimilar(trades[i])
            <=> /\ trades[i].timestamp >= now - 30
                /\ SharesRegimeValue(trades[i], fn_call.args.market_state)
       /\ (trades[i].result = <<>> \/ trades[i].data.market_state = NoneState)
            => ~CountedSimilar(trades[i])

\* A record that shares the volatility alone with the current regime is
\* counted, beside a record of the same regime that has no outcome.
C33_Witness ==
  /\ fn_call.fn = "analyze_historical_performance"
  /\ Len(trades) = 2
  /\ fn_call.args.market_state.trend = "uptrend"
  /\ trades[1].data.market_state.trend = "downtrend"
  /\ trades[1].data.market_state.volatility = "high"
  /\ trades[2].data.market_state.trend = "downtrend"
  /\ trades[2].result = <<>>
  /\ fn_call.result.similar = <<1>>

\* C34: analyze_market_conditions puts no record written by
\* make_final_decision, which stores the regime under the key market_state,
\* into a trend bucket or a volatility bucket, whatever its outcome: the
\* breakdown by condition of a ledger written by the pipeline is empty.
C34_PipelineLedgerHasNoBuckets ==
  fn_call.fn = "analyze_market_conditions" =>
    /\ DOMAIN fn_call.result.trend = {}
    /\ DOMAIN fn_call.result.volatility = {}

\* The breakdown was computed for a ledger that holds, within the last 30
\* days, a decision with an outcome recorded in an uptrend of high
\* volatility.
C34_Witness ==
  /\ fn_call.fn = "analyze_market_conditions"
  /\ \E i \in 1..Len(trades) :
        /\ trades[i].result /= <<>>
        /\ trades[i].timestamp >= now - 30
        /\ trades[i].data.market_state.trend = "uptrend"
        /\ trades[i].data.market_state.volatility = "high"

\* The calls that place an order, cancel orders or close the position.
Mutates(call) ==
  call.api \in {"futures_create_order", "futures_cancel_all_open_orders"}

ExecutedAction == Get(fn_call.args.decision, "action", Hold)

\* C35: execute_decision makes no exchange call at all for the hold action
\* (which is the action of the safe default and of a decision without an
\* action), and it places or cancels orders only when the action is exactly
\* open-long, open-short or close.
C35_OnlyThreeActionsReachTheExchange ==
  fn_call.fn = "execute_decision" =>
    /\ ExecutedAction = Hold => fn_call.result.calls = <<>>
    /\ ExecutedAction \notin {OpenLong, OpenShort, ClosePosition}
         => \A i \in 1..Len(fn_call.result.calls) :
               ~Mutates(fn_call.result.calls[i])

\* The keep-and-hold action was executed while a position was open: the
\* exchange was read for the quantity and no order went out.
C35_Witness ==
  /\ fn_call.fn = "execute_decision"
  /\ ExecutedAction = KeepAndHold
  /\ fn_call.args.position.size /= 0
  /\ fn_call.result.calls /= <<>>

\* The calls of the last function call that place or cancel orders, in the
\* order they were made.
MutatingCallsMade == SelectSeq(fn_call.result.calls, Mutates)

\* C36: for a position read as not flat, close_all_positions cancels the
\* open orders first and then places exactly one market order against the
\* position for its full absolute size; when the cancel call fails no order
\* is placed and the result is False; for a flat position, and for one that
\* could not be read, nothing is cancelled or placed.
C36_CancelThenOneCloseOrder ==
  fn_call.fn = "close_all_positions" =>
    LET position == fn_call.args.position
        made == MutatingCallsMade
    IN  IF position.read /\ position.size /= 0
        THEN /\ made /= <<>>
             /\ made[1].api = "futures_cancel_all_open_orders"
             /\ IF made[1].ok
                THEN /\ Len(made) = 2
                     /\ made[2].api = "futures_create_order"
                     /\ made[2].type = "MARKET"
                     /\ made[2].side = (IF position.size > 0 THEN "SELL"
                                        ELSE "BUY")
                     /\ made[2].quantity = (IF position.size > 0
                                            THEN position.size
                                            ELSE -position.size)
                ELSE /\ Len(made) = 1
                     /\ fn_call.result.returned = FALSE
        ELSE made = <<>>

\* A short position was closed by a buy of its size after the cancel call
\* went through.
C36_Witness ==
  /\ fn_call.fn = "close_all_positions"
  /\ fn_call.args.position.size = -2
  /\ "cancel" \notin fn_call.args.fails
  /\ Len(MutatingCallsMade) = 2
  /\ MutatingCallsMade[2].side = "BUY"
  /\ MutatingCallsMade[2].quantity = 2

\* The orders of the open-long or open-short branch.
EntrySide ==
  IF ExecutedAction = OpenLong THEN "BUY" ELSE "SELL"

IsEntryOrder(call) ==
  call.api = "futures_create_order" /\ call.type \in {"MARKET", "LIMIT"}

IsProtectiveOrder(call) ==
  call.api = "futures_create_order"
  /\ call.type \in {"STOP_MARKET", "TAKE_PROFIT_MARKET"}

\* C37: when a long or a short position is opened, the stop-loss and the
\* take-profit order are placed only after an entry order that returned
\* without error, on the side against the entry and with closePosition
\* set; when the entry order fails there is no protective order; and a
\* stop-loss order that fails is still followed by the take-profit order
\* the decision asks for.
C37_ProtectiveOrdersFollowTheEntry ==
  (fn_call.fn = "execute_decision"
     /\ ExecutedAction \in {OpenLong, OpenShort}) =>
    LET made == MutatingCallsMade
        decision == fn_call.args.decision
    IN  /\ \A i \in 1..Len(made) :
             IsProtectiveOrder(made[i])
               => /\ IsEntryOrder(made[1]) /\ made[1].ok /\ i > 1
                  /\ made[1].side = EntrySide
                  /\ made[i].side /= made[1].side
                  /\ made[i].closePosition
        /\ (made /= <<>> /\ ~made[1].ok) => Len(made) = 1
        /\ \A i \in 1..Len(made) :
             (made[i].type = "STOP_MARKET" /\ ~made[i].ok
                /\ decision["take_profit"] = <<"1">>)
               => /\ i < Len(made)
                  /\ made[i + 1].type = "TAKE_PROFIT_MARKET"

\* A short position was opened and its stop-loss order failed: the
\* take-profit order followed on the buy side.
C37_Witness ==
  /\ fn_call.fn = "execute_decision"
  /\ ExecutedAction = OpenShort
  /\ Len(MutatingCallsMade) = 3
  /\ ~MutatingCallsMade[2].ok
  /\ MutatingCallsMade[2].type = "STOP_MARKET"
  /\ MutatingCallsMade[3].type = "TAKE_PROFIT_MARKET"
  /\ MutatingCallsMade[3].side = "BUY"

\* The running emergency check has failed: the fetch of the market data,
\* the market context or the reasoning call raised, or the response could
\* not be read as an object with the key is_emergency.
EmergencyCheckFailed ==
  \/ em.failed \in {"market_data", "market_context", "emergency"}
  \/ em.parse \in {"json_error", "key_error"}

\* C38: a run of the emergency check on an open position in which the
\* market context, the reasoning call or the parsing of the response failed
\* reports no emergency, logs none and does not call close_all_positions:
\* no exchange call is made in that run.
C38_FailedCheckTakesNoAction ==
  (em.position \in {"long", "short"} /\ EmergencyCheckFailed)
    => /\ ~em.fired
       /\ ~em.logged
       /\ ~em.close_invoked
       /\ em.exchange = <<>>
       /\ em.phase = "act" => ~Truthy(em.result["is_emergency"])

\* A run on a long position whose response had no key is_emergency has
\* ended.
C38_Witness ==
  /\ em.phase = "done"
  /\ em.position = "long"
  /\ em.parse = "key_error"
  /\ em.calls /= <<>>

=============================================================================
